---- MODULE Spec2Model ----
(***************************************************************************)
(* Model of the Cargo build settings of sublime-rust:                      *)
(*   rust/cargo_settings.py  CargoSettings (layered settings, get_command) *)
(*   rust/cargo_config.py    CargoConfigBase and the cargo_set_* commands  *)
(*   cargo_build.py          CargoExecThread                               *)
(*                                                                         *)
(* Python values.  A str is a sequence of symbols; the symbol " " is       *)
(* whitespace, every other symbol stands for a run of non-blank            *)
(* characters, so str.split() and ' '.join() are computed on the symbols.  *)
(* None, bool, str and list values are tagged records so that values of    *)
(* different Python types compare unequal.  A dict is a function whose     *)
(* DOMAIN is the set of keys present.                                      *)
(***************************************************************************)
EXTENDS Integers, Sequences, FiniteSets, TLC


----------------------------------------------------------------------------
(* Python values *)

None == [t |-> "none"]
Str(s) == [t |-> "str", s |-> s]
Bool(b) == [t |-> "bool", b |-> b]
List(l) == [t |-> "list", l |-> l]

\* bool(v): the truth value Python gives v in `if v:`
Truthy(v) ==
    CASE v.t = "none" -> FALSE
      [] v.t = "bool" -> v.b
      [] v.t = "str"  -> v.s # <<>>
      [] v.t = "list" -> v.l # <<>>

EmptyDict == [k \in {} |-> None]

\* d.get(k, default)
DictGet(d, k, default) == IF k \in DOMAIN d THEN d[k] ELSE default

\* d[k] = v
DictSet(d, k, v) == [x \in (DOMAIN d) \cup {k} |-> IF x = k THEN v ELSE d[x]]

\* str.split(): the maximal runs of non-blank symbols, each run a str
RECURSIVE SplitFrom(_, _, _)
SplitFrom(s, i, cur) ==
    IF i > Len(s) THEN (IF cur = <<>> THEN <<>> ELSE <<cur>>)
    ELSE IF s[i] = " "
         THEN (IF cur = <<>> THEN <<>> ELSE <<cur>>) \o SplitFrom(s, i + 1, <<>>)
         ELSE SplitFrom(s, i + 1, Append(cur, s[i]))

Split(s) == SplitFrom(s, 1, <<>>)

\* ' '.join(words)
RECURSIVE Join(_)
Join(words) ==
    IF words = <<>> THEN <<>>
    ELSE IF Len(words) = 1 THEN words[1]
    ELSE words[1] \o <<" ">> \o Join(Tail(words))

----------------------------------------------------------------------------
(* rust/cargo_settings.py *)

CARGO_COMMANDS ==
    [build  |-> [name |-> Str(<<"Build">>), command |-> Str(<<"build">>),
                 allows_target |-> Bool(TRUE), allows_target_triple |-> Bool(TRUE),
                 allows_release |-> Bool(TRUE), allows_features |-> Bool(TRUE),
                 allows_json |-> Bool(TRUE)],
     run    |-> [name |-> Str(<<"Run">>), command |-> Str(<<"run">>),
                 allows_target |-> List(<<"bin", "example">>),
                 allows_target_triple |-> Bool(TRUE),
                 allows_release |-> Bool(TRUE), allows_features |-> Bool(TRUE),
                 allows_json |-> Bool(TRUE)],
     test   |-> [name |-> Str(<<"Test">>), command |-> Str(<<"test">>),
                 allows_target |-> Bool(TRUE), allows_target_triple |-> Bool(TRUE),
                 allows_release |-> Bool(TRUE), allows_features |-> Bool(TRUE),
                 allows_json |-> Bool(TRUE)],
     bench  |-> [name |-> Str(<<"Bench">>), command |-> Str(<<"bench">>),
                 allows_target |-> Bool(TRUE), allows_target_triple |-> Bool(TRUE),
                 allows_release |-> Bool(FALSE), allows_features |-> Bool(TRUE),
                 allows_json |-> Bool(TRUE)],
     clean  |-> [name |-> Str(<<"Clean">>), command |-> Str(<<"clean">>)],
     doc    |-> [name |-> Str(<<"Doc">>), command |-> Str(<<"doc">>),
                 allows_target |-> List(<<"lib", "bin">>),
                 allows_target_triple |-> Bool(TRUE),
                 allows_release |-> Bool(TRUE), allows_features |-> Bool(TRUE),
                 allows_json |-> Bool(FALSE)],
     clippy |-> [name |-> Str(<<"Clippy">>), command |-> Str(<<"clippy">>),
                 allows_target |-> Bool(FALSE), allows_target_triple |-> Bool(TRUE),
                 allows_release |-> Bool(TRUE), allows_features |-> Bool(TRUE),
                 allows_json |-> Bool(TRUE)],
     script |-> [name |-> Str(<<"Script">>), command |-> Str(<<"script">>),
                 allows_target |-> Bool(FALSE), allows_target_triple |-> Bool(FALSE),
                 allows_release |-> Bool(FALSE), allows_features |-> Bool(FALSE),
                 allows_json |-> Bool(FALSE), wants_view_path |-> Bool(TRUE)]]

\* project_data.get('settings', {}).get('cargo_build', {}).get('paths', {}).get(path, {})
PathData(project_data, path) ==
    DictGet(DictGet(DictGet(DictGet(project_data, "settings", EmptyDict),
                            "cargo_build", EmptyDict),
                    "paths", EmptyDict),
            path, EmptyDict)

\* the tree a getter would leave if its chain were made of setdefault calls
TreeAfterGet_SetDefault(project_data, path) ==
    LET s1 == DictGet(project_data, "settings", EmptyDict)
        s2 == DictGet(s1, "cargo_build", EmptyDict)
        s3 == DictGet(s2, "paths", EmptyDict)
        s4 == DictGet(s3, path, EmptyDict)
    IN  DictSet(project_data, "settings",
            DictSet(s1, "cargo_build", DictSet(s2, "paths", DictSet(s3, path, s4))))

\* self.project_data after the chain of .get(key, {}) calls of a getter or
\* of get_command: dict.get returns its default without storing it
TreeAfterGet(project_data, path) ==
    project_data

get_with_target(project_data, path, target, key, default) ==
    LET pdata == PathData(project_data, path)
        d == IF Truthy(target)
             THEN DictGet(DictGet(pdata, "targets", EmptyDict), target, EmptyDict)
             ELSE DictGet(pdata, "defaults", EmptyDict)
    IN  DictGet(d, key, default)

get_with_variant(project_data, path, variant, key, default) ==
    LET vdata == DictGet(DictGet(PathData(project_data, path), "variants", EmptyDict),
                         variant, EmptyDict)
    IN  DictGet(vdata, key, default)

\* a variant that writes a tree holding the cargo_build settings only
SetInLayer_CargoBuildOnly(project_data, path, layer, sel, key, value) ==
    LET s   == DictGet(project_data, "settings", EmptyDict)
        cb  == DictGet(s, "cargo_build", EmptyDict)
        ps  == DictGet(cb, "paths", EmptyDict)
        pd  == DictGet(ps, path, EmptyDict)
        l   == DictGet(pd, layer, EmptyDict)
        l2  == IF layer = "defaults"
               THEN DictSet(l, key, value)
               ELSE DictSet(l, sel, DictSet(DictGet(l, sel, EmptyDict), key, value))
    IN  DictSet(EmptyDict, "settings",
          DictSet(EmptyDict, "cargo_build",
            DictSet(cb, "paths",
              DictSet(ps, path, DictSet(pd, layer, l2)))))

\* The tree with layer `layer` (and, for targets and variants, its entry `sel`)
\* of `path` created where missing and key set there: the setdefault chain
\* followed by d[key] = value.  sel is None for the defaults layer.
SetInLayer(project_data, path, layer, sel, key, value) ==
    LET s   == DictGet(project_data, "settings", EmptyDict)
        cb  == DictGet(s, "cargo_build", EmptyDict)
        ps  == DictGet(cb, "paths", EmptyDict)
        pd  == DictGet(ps, path, EmptyDict)
        l   == DictGet(pd, layer, EmptyDict)
        l2  == IF layer = "defaults"
               THEN DictSet(l, key, value)
               ELSE DictSet(l, sel, DictSet(DictGet(l, sel, EmptyDict), key, value))
    IN  DictSet(project_data, "settings",
          DictSet(s, "cargo_build",
            DictSet(cb, "paths",
              DictSet(ps, path, DictSet(pd, layer, l2)))))

\* project_data after set_with_target(path, target, key, value)
set_with_target(project_data, path, target, key, value) ==
    IF Truthy(target)
    THEN SetInLayer(project_data, path, "targets", target, key, value)
    ELSE SetInLayer(project_data, path, "defaults", None, key, value)

\* the variant's value written to the targets layer
set_with_variant_InTargets(project_data, path, variant, key, value) ==
    SetInLayer(project_data, path, "targets", variant, key, value)

\* project_data after set_with_variant(path, variant, key, value)
set_with_variant(project_data, path, variant, key, value) ==
    SetInLayer(project_data, path, "variants", variant, key, value)

\* sublime.expand_variables(s, window.extract_variables()): the symbol "${file}"
\* is replaced by the active file's name, other symbols are kept
RECURSIVE expand(_, _)
expand(s, view) ==
    IF s = <<>> THEN <<>>
    ELSE (IF Head(s) = "${file}" THEN view.file_name ELSE <<Head(s)>>)
         \o expand(Tail(s), view)

\* shlex.split(s) of a string without quoting or escape symbols
shlex_split(s) == Split(s)

\* vdata_get of get_command
vdata_get(initial_settings, vdata, key, default) ==
    DictGet(initial_settings, key, DictGet(vdata, key, default))

\* the selector put into effect whatever allows_target says
DetermineTarget_Ungated(cmd_info, initial_settings, vdata, view) ==
    LET tcfg == vdata_get(initial_settings, vdata, "target", None)
    IN  IF tcfg = Str(<<"auto">>)
        THEN (IF view.rust /\ Len(view.targets) = 1
              THEN Str(Join(view.targets[1]))
              ELSE None)
        ELSE tcfg

\* the selector taken from the one-shot overrides only
DetermineTarget_OverridesOnly(cmd_info, initial_settings, vdata, view) ==
    IF Truthy(DictGet(cmd_info, "allows_target", Bool(FALSE)))
    THEN LET tcfg == DictGet(initial_settings, "target", None)
         IN  IF tcfg = Str(<<"auto">>)
             THEN (IF view.rust /\ Len(view.targets) = 1
                   THEN Str(Join(view.targets[1]))
                   ELSE None)
             ELSE tcfg
    ELSE None

\* 'auto' resolved to the first candidate whenever there is one
DetermineTarget_FirstCandidate(cmd_info, initial_settings, vdata, view) ==
    IF Truthy(DictGet(cmd_info, "allows_target", Bool(FALSE)))
    THEN LET tcfg == vdata_get(initial_settings, vdata, "target", None)
         IN  IF tcfg = Str(<<"auto">>)
             THEN (IF view.rust /\ Len(view.targets) >= 1
                   THEN Str(Join(view.targets[1]))
                   ELSE None)
             ELSE tcfg
    ELSE None

\* the target selector get_command puts into effect ("# Target")
DetermineTarget(cmd_info, initial_settings, vdata, view) ==
    IF Truthy(DictGet(cmd_info, "allows_target", Bool(FALSE)))
    THEN LET tcfg == vdata_get(initial_settings, vdata, "target", None)
         IN  IF tcfg = Str(<<"auto">>)
             THEN (IF view.rust /\ Len(view.targets) = 1
                   THEN Str(Join(view.targets[1]))
                   ELSE None)
             ELSE tcfg
    ELSE None

\* get with the variant layer consulted above the target layer
get_VariantOverTarget(pdata, vdata, target, initial_settings, key, default) ==
    LET d     == DictGet(DictGet(pdata, "defaults", EmptyDict), key, default)
        t_val == DictGet(DictGet(DictGet(pdata, "targets", EmptyDict), target, EmptyDict),
                         key, d)
        v_val == DictGet(vdata, key, t_val)
    IN  DictGet(initial_settings, key, v_val)

\* get with the one-shot overrides consulted below the persisted layers
get_OverridesLast(pdata, vdata, target, initial_settings, key, default) ==
    LET d     == DictGet(DictGet(pdata, "defaults", EmptyDict), key,
                         DictGet(initial_settings, key, default))
        v_val == DictGet(vdata, key, d)
    IN  DictGet(DictGet(DictGet(pdata, "targets", EmptyDict), target, EmptyDict),
                key, v_val)

\* get without the defaults layer
get_NoDefaults(pdata, vdata, target, initial_settings, key, default) ==
    LET v_val == DictGet(vdata, key, default)
        t_val == DictGet(DictGet(DictGet(pdata, "targets", EmptyDict), target, EmptyDict),
                         key, v_val)
    IN  DictGet(initial_settings, key, t_val)

\* get with the targets entry of the configured selector, 'auto' included
get_ConfiguredLayer(pdata, vdata, target, initial_settings, key, default) ==
    LET d     == DictGet(DictGet(pdata, "defaults", EmptyDict), key, default)
        v_val == DictGet(vdata, key, d)
        tcfg  == vdata_get(initial_settings, vdata, "target", None)
        t_val == DictGet(DictGet(DictGet(pdata, "targets", EmptyDict), tcfg, EmptyDict),
                         key, v_val)
    IN  DictGet(initial_settings, key, t_val)

\* get where a key stored with the value None counts as not stored
get_NullFallsThrough(pdata, vdata, target, initial_settings, key, default) ==
    LET or_else(dict, dflt) ==
            IF DictGet(dict, key, None) = None THEN dflt ELSE dict[key]
        d     == or_else(DictGet(pdata, "defaults", EmptyDict), default)
        v_val == or_else(vdata, d)
        t_val == or_else(DictGet(DictGet(pdata, "targets", EmptyDict), target, EmptyDict),
                         v_val)
    IN  or_else(initial_settings, t_val)

\* get of get_command
get(pdata, vdata, target, initial_settings, key, default) ==
    LET d     == DictGet(DictGet(pdata, "defaults", EmptyDict), key, default)
        v_val == DictGet(vdata, key, d)
        t_val == DictGet(DictGet(DictGet(pdata, "targets", EmptyDict), target, EmptyDict),
                         key, v_val)
    IN  DictGet(initial_settings, key, t_val)

\* the toolchain token added for every toolchain that is not None
ToolchainArgs_NotNone(toolchain) ==
    IF toolchain # None THEN << <<"+">> \o toolchain.s >> ELSE <<>>

\* the optional part ['+' + toolchain]
ToolchainArgs(toolchain) ==
    IF Truthy(toolchain) THEN << <<"+">> \o toolchain.s >> ELSE <<>>

\* the target_triple flag added without looking at allows_target_triple
TripleArgs_Ungated(cmd_info, triple) ==
    IF Truthy(triple) THEN << <<"--target">>, triple.s >> ELSE <<>>

\* the optional part ['--target', v] ("# target_triple")
TripleArgs(cmd_info, triple) ==
    IF Truthy(DictGet(cmd_info, "allows_target_triple", Bool(FALSE))) /\ Truthy(triple)
    THEN << <<"--target">>, triple.s >>
    ELSE <<>>

\* the optional part ['--release'] ("# release (profile)")
ReleaseArgs(cmd_info, release) ==
    IF Truthy(DictGet(cmd_info, "allows_release", Bool(FALSE))) /\ Truthy(release)
    THEN << <<"--release">> >>
    ELSE <<>>

\* the json flag never added
JsonArgs_Never(cmd_info) ==
    <<>>

\* the optional part ['--message-format=json']: the test is on cmd_info alone
JsonArgs(cmd_info) ==
    IF Truthy(DictGet(cmd_info, "allows_json", None))
    THEN << <<"--message-format=json">> >>
    ELSE <<>>

\* the separator added only when there are extra cargo arguments
ExtraArgs_SeparatorNeedsCargoArgs(extra_cargo_args, extra_run_args, view) ==
       (IF Truthy(extra_cargo_args)
        THEN shlex_split(expand(extra_cargo_args.s, view)) ELSE <<>>)
    \o (IF Truthy(extra_run_args)
        THEN (IF Truthy(extra_cargo_args) THEN << <<"--">> >> ELSE <<>>)
             \o shlex_split(expand(extra_run_args.s, view))
        ELSE <<>>)

\* the tail of the vector ("# Extra args.")
ExtraArgs(extra_cargo_args, extra_run_args, view) ==
       (IF Truthy(extra_cargo_args)
        THEN shlex_split(expand(extra_cargo_args.s, view)) ELSE <<>>)
    \o (IF Truthy(extra_run_args)
        THEN << <<"--">> >> \o shlex_split(expand(extra_run_args.s, view))
        ELSE <<>>)

\* get_command with '--release' added before the target_triple flag
get_command_ReleaseFirst(project_data, manifest_dir, cmd_info, initial_settings, view) ==
    LET command == cmd_info.command
        pdata == PathData(project_data, manifest_dir)
        vdata == DictGet(DictGet(pdata, "variants", EmptyDict), command, EmptyDict)
        target == DetermineTarget(cmd_info, initial_settings, vdata, view)
        g(key, default) == get(pdata, vdata, target, initial_settings, key, default)
        wants_path == Truthy(DictGet(cmd_info, "wants_view_path", Bool(FALSE)))
    IN  IF wants_path /\ ~view.rust
        THEN None
        ELSE List(
               << <<"cargo">> >>
            \o ToolchainArgs(g("toolchain", None))
            \o << command.s >>
            \o (IF Truthy(target) THEN Split(target.s) ELSE <<>>)
            \o ReleaseArgs(cmd_info, g("release", Bool(FALSE)))
            \o TripleArgs(cmd_info, g("target_triple", None))
            \o JsonArgs(cmd_info)
            \o (IF wants_path THEN << view.file_name >> ELSE <<>>)
            \o ExtraArgs(g("extra_cargo_args", None), g("extra_run_args", None), view))

\* get_command passing the features settings on to cargo
get_command_WithFeatures(project_data, manifest_dir, cmd_info, initial_settings, view) ==
    LET command == cmd_info.command
        pdata == PathData(project_data, manifest_dir)
        vdata == DictGet(DictGet(pdata, "variants", EmptyDict), command, EmptyDict)
        target == DetermineTarget(cmd_info, initial_settings, vdata, view)
        g(key, default) == get(pdata, vdata, target, initial_settings, key, default)
        toolchain == g("toolchain", None)
        triple == g("target_triple", None)
        release == g("release", Bool(FALSE))
        extra_cargo_args == g("extra_cargo_args", None)
        extra_run_args == g("extra_run_args", None)
        wants_path == Truthy(DictGet(cmd_info, "wants_view_path", Bool(FALSE)))
    IN  IF wants_path /\ ~view.rust
        THEN None
        ELSE List(
               << <<"cargo">> >>
            \o ToolchainArgs(toolchain)
            \o << command.s >>
            \o (IF Truthy(target) THEN Split(target.s) ELSE <<>>)
            \o TripleArgs(cmd_info, triple)
            \o ReleaseArgs(cmd_info, release)
            \o (IF /\ Truthy(DictGet(cmd_info, "allows_features", Bool(FALSE)))
                   /\ Truthy(g("no_default_features", Bool(FALSE)))
                THEN << <<"--no-default-features">> >> ELSE <<>>)
            \o (IF /\ Truthy(DictGet(cmd_info, "allows_features", Bool(FALSE)))
                   /\ Truthy(g("features", None))
                THEN << <<"--features">> >> \o Split(g("features", None).s) ELSE <<>>)
            \o JsonArgs(cmd_info)
            \o (IF wants_path THEN << view.file_name >> ELSE <<>>)
            \o ExtraArgs(extra_cargo_args, extra_run_args, view))

\* CargoSettings.get_command
get_command(project_data, manifest_dir, cmd_info, initial_settings, view) ==
    LET command == cmd_info.command
        pdata == PathData(project_data, manifest_dir)
        vdata == DictGet(DictGet(pdata, "variants", EmptyDict), command, EmptyDict)
        target == DetermineTarget(cmd_info, initial_settings, vdata, view)
        g(key, default) == get(pdata, vdata, target, initial_settings, key, default)
        toolchain == g("toolchain", None)
        triple == g("target_triple", None)
        release == g("release", Bool(FALSE))
        extra_cargo_args == g("extra_cargo_args", None)
        extra_run_args == g("extra_run_args", None)
        wants_path == Truthy(DictGet(cmd_info, "wants_view_path", Bool(FALSE)))
    IN  IF wants_path /\ ~view.rust
        THEN None
        ELSE List(
               << <<"cargo">> >>
            \o ToolchainArgs(toolchain)
            \o << command.s >>
            \o (IF Truthy(target) THEN Split(target.s) ELSE <<>>)
            \o TripleArgs(cmd_info, triple)
            \o ReleaseArgs(cmd_info, release)
            \o JsonArgs(cmd_info)
            \o (IF wants_path THEN << view.file_name >> ELSE <<>>)
            \o ExtraArgs(extra_cargo_args, extra_run_args, view))

----------------------------------------------------------------------------
(* The environment: file system, views of the window, external commands *)

\* A path is a str of the symbols "/" and directory or file names.
RootDir == <<"/">>
P1Dir == <<"/", "p1">>
P1Src == <<"/", "p1", "/", "src">>
TmpDir == <<"/", "tmp">>
WsADir == <<"/", "ws", "/", "a">>
WsBDir == <<"/", "ws", "/", "b">>

\* the directories that hold a Cargo.toml: package /p1, and the two member
\* packages of a workspace
ManifestDirs == {P1Dir, WsADir, WsBDir}

\* os.path.dirname(path)
dirname(path) ==
    IF Len(path) <= 1 THEN path
    ELSE IF Len(path) = 2 THEN RootDir
    ELSE SubSeq(path, 1, Len(path) - 2)

\* os.path.join(cwd, name)
path_join(cwd, name) == IF cwd = RootDir THEN cwd \o <<name>> ELSE cwd \o <<"/", name>>

\* os.path.exists(path) for a path that ends in Cargo.toml
manifest_exists(path) == \E d \in ManifestDirs : path = path_join(d, "Cargo.toml")

\* The views the window can have active: the file's name, whether its scope
\* is source.rust, and what TargetDetector.determine_targets gives for the
\* file (the cmd_line of each candidate).
ViewBin1 == [file_name |-> P1Src \o <<"/", "bin1.rs">>, rust |-> TRUE,
             targets |-> << << <<"--bin">>, <<"bin1">> >> >>]
ViewMod == [file_name |-> P1Src \o <<"/", "mod.rs">>, rust |-> TRUE,
            targets |-> << << <<"--bin">>, <<"bin1">> >>, << <<"--lib">> >> >>]
ViewToml == [file_name |-> P1Dir \o <<"/", "Cargo.toml">>, rust |-> FALSE,
             targets |-> <<>>]
ViewStray == [file_name |-> TmpDir \o <<"/", "x.rs">>, rust |-> TRUE,
              targets |-> <<>>]
Views == {ViewBin1, ViewMod, ViewToml, ViewStray}
\* a source file of the workspace member /ws/a
ViewWs == [file_name |-> WsADir \o <<"/", "src", "/", "main.rs">>, rust |-> TRUE,
           targets |-> << << <<"--bin">>, <<"alpha">> >> >>]

\* _determine_working_directory for a window whose active view has a file
_determine_working_directory(view) == dirname(view.file_name)

\* _find_cargo_manifest(cwd): the manifest_dir found, None when the search
\* reaches the root without finding a Cargo.toml
RECURSIVE _find_cargo_manifest(_)
_find_cargo_manifest(cwd) ==
    IF manifest_exists(path_join(cwd, "Cargo.toml")) THEN Str(cwd)
    ELSE IF dirname(cwd) = cwd THEN None
    ELSE _find_cargo_manifest(dirname(cwd))

----------------------------------------------------------------------------
(* rust/cargo_config.py: the item sources of the questions *)

\* `cargo metadata --no-deps` run in path (get_cargo_metadata): the packages
\* of the manifest found there, None when the command fails
CargoMetadata(path) ==
    IF path = Str(P1Dir)
    THEN [packages |-> <<
            [name |-> <<"multi-targets">>,
             manifest_path |-> P1Dir \o <<"/", "Cargo.toml">>,
             targets |-> << [name |-> <<"multi-targets">>, kind |-> <<"lib">>],
                            [name |-> <<"bin1">>, kind |-> <<"bin">>],
                            [name |-> <<"build-script-build">>, kind |-> <<"custom-build">>] >>,
             features |-> << [name |-> <<"default">>, deps |-> << <<"a">> >>],
                             [name |-> <<"a">>, deps |-> <<>>],
                             [name |-> <<"b">>, deps |-> <<>>] >>] >>]
    ELSE IF path \in {Str(WsADir), Str(WsBDir)}
    THEN [packages |-> <<
            [name |-> <<"alpha">>,
             manifest_path |-> WsADir \o <<"/", "Cargo.toml">>,
             targets |-> << [name |-> <<"alpha">>, kind |-> <<"bin">>] >>,
             features |-> <<>>],
            [name |-> <<"beta">>,
             manifest_path |-> WsBDir \o <<"/", "Cargo.toml">>,
             targets |-> << [name |-> <<"beta">>, kind |-> <<"lib">>] >>,
             features |-> <<>>] >>]
    ELSE None

\* the package directories in the order of their labels 'Package:' + name
PackageOrder == << Str(WsADir), Str(WsBDir), Str(P1Dir) >>

\* the lines `rustup target list` prints
RustupTargetList ==
    << <<"x86_64-unknown-linux-gnu", " ", "(default)">>,
       <<"wasm32-unknown-unknown", " ", "(installed)">>,
       <<"arm-linux-androideabi">> >>

\* the lines `rustup toolchain list` prints
RustupToolchainList ==
    << <<"stable", "-", "x86_64-unknown-linux-gnu", " ", "(default)">> >>

\* util.index_with(l, cb): index (from 0) of the first element of l in the
\* set of matching elements, -1 when there is none
index_with(l, matching) ==
    IF \E i \in 1..Len(l) : l[i] \in matching
    THEN (CHOOSE i \in 1..Len(l) :
            l[i] \in matching /\ \A j \in 1..(i - 1) : l[j] \notin matching) - 1
    ELSE -1

\* s.endswith(suffix) and s[:-len(suffix)]
EndsWith(s, suffix) ==
    Len(s) >= Len(suffix) /\ SubSeq(s, Len(s) - Len(suffix) + 1, Len(s)) = suffix
DropSuffix(s, suffix) == SubSeq(s, 1, Len(s) - Len(suffix))

\* An item source gives [ok |-> TRUE, info |-> item_info, packages |-> the
\* object's self.packages afterwards], or [ok |-> FALSE, error |-> ...] when
\* it raises.
Raise(error) == [ok |-> FALSE, error |-> error]
Items(f, info) == [ok |-> TRUE, info |-> info, packages |-> f.packages]

\* self.packages after _add_manifest(path)
_add_manifest(packages, path) ==
    LET manifest == CargoMetadata(path)
    IN  IF manifest = None THEN packages
        ELSE LET dirs == {Str(dirname(manifest.packages[i].manifest_path)) :
                             i \in 1..Len(manifest.packages)}
                 first(d) == manifest.packages[
                     CHOOSE i \in 1..Len(manifest.packages) :
                         /\ Str(dirname(manifest.packages[i].manifest_path)) = d
                         /\ \A j \in 1..(i - 1) :
                               Str(dirname(manifest.packages[j].manifest_path)) # d]
             IN  [d \in (DOMAIN packages) \cup dirs |->
                     IF d \in DOMAIN packages THEN packages[d] ELSE first(d)]

\* a variant that leaves out the paths of the persisted settings
AddManifests_CurrentOnly(packages, paths) == packages

RECURSIVE AddManifests(_, _)
AddManifests(packages, paths) ==
    IF paths = {} THEN packages
    ELSE LET path == CHOOSE x \in paths : TRUE
             next == IF path \in DOMAIN packages THEN packages
                     ELSE _add_manifest(packages, path)
         IN  AddManifests(next, paths \ {path})

items_package(f) ==
    LET skeys == DOMAIN DictGet(DictGet(DictGet(f.settings.project_data,
                                                "settings", EmptyDict),
                                        "cargo_build", EmptyDict),
                                "paths", EmptyDict)
        packages == AddManifests(_add_manifest(EmptyDict, f.settings.manifest_dir), skeys)
        sorted == SelectSeq(PackageOrder, LAMBDA d : d \in DOMAIN packages)
        items == [i \in 1..Len(sorted) |->
                    << Str(<<"Package:">> \o packages[sorted[i]].name), sorted[i] >>]
    IN  [ok |-> TRUE, info |-> [items |-> items, skip_if_one |-> Bool(TRUE)],
         packages |-> packages]

LibKinds == {"lib", "rlib", "dylib", "staticlib", "proc-macro"}
ExeKinds == {"bin", "test", "example", "bench"}

\* a variant that files under 'lib' only the targets whose first kind is 'lib'
KindGroup_PlainLibOnly(target) ==
    IF target.kind[1] = "lib" THEN "lib"
    ELSE IF target.kind[1] \in ExeKinds THEN target.kind[1]
    ELSE ""

\* the key of `kinds` a target is filed under, "" when it is not listed
KindGroup(target) ==
    IF target.kind[1] \in LibKinds THEN "lib"
    ELSE IF target.kind[1] \in ExeKinds THEN target.kind[1]
    ELSE ""

\* str.capitalize() of a kind
Capitalize(kind) ==
    CASE kind = "bin" -> "Bin" [] kind = "test" -> "Test"
      [] kind = "example" -> "Example" [] kind = "bench" -> "Bench"

\* the (text, arg) entry of a target
TargetEntry(target) ==
    IF KindGroup(target) = "lib"
    THEN << Str(<<"Lib">>), Str(<<"--lib">>) >>
    ELSE << Str(<<Capitalize(target.kind[1]), ":", " ">> \o target.name),
            Str(<<"--" \o target.kind[1], " ">> \o target.name) >>

\* the keys of `kinds` in the order in which they were first inserted
RECURSIVE KindOrder(_, _)
KindOrder(targets, seen) ==
    IF targets = <<>> THEN <<>>
    ELSE LET g == KindGroup(Head(targets))
         IN  IF g = "" \/ g \in seen THEN KindOrder(Tail(targets), seen)
             ELSE <<g>> \o KindOrder(Tail(targets), seen \cup {g})

\* the key of CARGO_COMMANDS a variant value names, "" when it names none
CommandKey(variant) ==
    IF variant.t = "str" /\ Len(variant.s) = 1 /\ variant.s[1] \in DOMAIN CARGO_COMMANDS
    THEN variant.s[1] ELSE ""

\* a variant that lists every kind whatever the command allows
RECURSIVE KindItems_Unfiltered(_, _, _)
KindItems_Unfiltered(order, targets, target_types) ==
    IF order = <<>> THEN <<>>
    ELSE LET values == SelectSeq(targets, LAMBDA t : KindGroup(t) = Head(order))
         IN  [i \in 1..Len(values) |-> TargetEntry(values[i])]
             \o KindItems_Unfiltered(Tail(order), targets, target_types)

\* the entries of the kinds allowed, kind after kind
RECURSIVE KindItems(_, _, _)
KindItems(order, targets, target_types) ==
    IF order = <<>> THEN <<>>
    ELSE LET kind == Head(order)
             values == SelectSeq(targets, LAMBDA t : KindGroup(t) = kind)
             allowed == IF target_types = Bool(TRUE) THEN TRUE
                        ELSE \E i \in 1..Len(target_types.l) : target_types.l[i] = kind
         IN  (IF allowed THEN [i \in 1..Len(values) |-> TargetEntry(values[i])] ELSE <<>>)
             \o KindItems(Tail(order), targets, target_types)

\* CargoConfigBase.items_target: the list, or the error raised
base_items_target(f) ==
    IF "package" \notin DOMAIN f.choices THEN Raise("KeyError")
    ELSE IF f.choices.package \notin DOMAIN f.packages THEN Raise("KeyError")
    ELSE LET targets == f.packages[f.choices.package].targets
             order == KindOrder(targets, {})
             variant == DictGet(f.choices, "variant", None)
             head == << << Str(<<"All Targets">>), None >>,
                        << Str(<<"Automatic Detection">>), Str(<<"auto">>) >> >>
         IN  IF order = <<>> \/ ~Truthy(variant)
             THEN [ok |-> TRUE, items |-> head \o KindItems(order, targets, Bool(TRUE))]
             ELSE IF CommandKey(variant) = "" THEN Raise("KeyError")
             ELSE IF "allows_target" \notin DOMAIN CARGO_COMMANDS[CommandKey(variant)]
                  THEN Raise("KeyError")
             ELSE LET target_types == CARGO_COMMANDS[CommandKey(variant)].allows_target
                  IN  IF target_types = Bool(FALSE) THEN Raise("TypeError")
                      ELSE [ok |-> TRUE,
                            items |-> head \o KindItems(order, targets, target_types)]

\* the order in which CARGO_COMMANDS.items() gives the commands
CommandOrder == <<"build", "run", "test", "bench", "clean", "doc", "clippy", "script">>

\* filter_variant: CargoSetTarget keeps the commands that allow a target
filter_variant(cls, info) ==
    IF cls = "CargoSetTarget"
    THEN Truthy(DictGet(info, "allows_target", Bool(FALSE)))
    ELSE TRUE

items_variant(f) ==
    LET keys == SelectSeq(CommandOrder, LAMBDA k : filter_variant(f.cls, CARGO_COMMANDS[k]))
    IN  Items(f, [items |-> [i \in 1..Len(keys) |->
                                << CARGO_COMMANDS[keys[i]].name, Str(<<keys[i]>>) >>]])

\* items_target of the class: CargoSetTarget adds the stored target as default
items_target(f) ==
    LET base == base_items_target(f)
    IN  IF ~base.ok THEN base
        ELSE IF f.cls = "CargoSetTarget"
        THEN IF "variant" \notin DOMAIN f.choices THEN Raise("KeyError")
             ELSE Items(f, [items |-> base.items,
                            default |-> get_with_variant(f.settings.project_data,
                                            f.choices.package, f.choices.variant,
                                            "target", None)])
        ELSE Items(f, [items |-> base.items])

items_profile(f) ==
    IF {"package", "target"} \subseteq DOMAIN f.choices
    THEN LET default == get_with_target(f.settings.project_data, f.choices.package,
                                        f.choices.target, "release", Bool(FALSE))
         IN  Items(f, [items |-> << << Str(<<"Dev">>), Str(<<"dev">>) >>,
                                    << Str(<<"Release">>), Str(<<"release">>) >> >>,
                       default |-> IF Truthy(default) THEN Str(<<"release">>)
                                   ELSE Str(<<"dev">>)])
    ELSE Raise("KeyError")

\* the entries of the triples rustup lists as default or installed
RECURSIVE TripleItems(_)
TripleItems(triples) ==
    IF triples = <<>> THEN <<>>
    ELSE LET triple == Head(triples)
             actual == IF EndsWith(triple, <<" ", "(default)">>)
                       THEN DropSuffix(triple, <<" ", "(default)">>)
                       ELSE IF EndsWith(triple, <<" ", "(installed)">>)
                       THEN DropSuffix(triple, <<" ", "(installed)">>)
                       ELSE <<>>
         IN  (IF actual = <<>> THEN <<>> ELSE << << Str(actual), Str(actual) >> >>)
             \o TripleItems(Tail(triples))

items_target_triple(f) ==
    IF {"package", "target"} \subseteq DOMAIN f.choices
    THEN Items(f, [items |-> << << Str(<<"Use Default">>), None >> >>
                             \o TripleItems(RustupTargetList),
                   default |-> get_with_target(f.settings.project_data, f.choices.package,
                                               f.choices.target, "target_triple", None)])
    ELSE Raise("KeyError")

items_which(f) ==
    Items(f, [items |->
        << << Str(<<"Set Toolchain for Build Variant">>), Str(<<"variant">>) >>,
           << Str(<<"Set Toolchain for Targets">>), Str(<<"target">>) >> >>])

\* a variant that adds the questions of the target case whatever was chosen
selected_which_TargetAlways(which) ==
    IF which \in {Str(<<"variant">>), Str(<<"target">>)}
    THEN [ok |-> TRUE, next |-> <<"package", "target", "toolchain">>]
    ELSE Raise("AssertionError")

\* selected_which: the questions to add, or the error raised
selected_which(which) ==
    IF which = Str(<<"variant">>)
    THEN [ok |-> TRUE, next |-> <<"package", "variant", "toolchain">>]
    ELSE IF which = Str(<<"target">>)
    THEN [ok |-> TRUE, next |-> <<"package", "target", "toolchain">>]
    ELSE Raise("AssertionError")

Channels == {"nightly", "beta", "stable", "1.15.1"}
Dates == {"2017-01-01"}

\* re.match of the toolchain pattern: (channel)(?:-(date))?(?:-(.*))
ToolchainMatches(toolchain) ==
    Len(toolchain) >= 2 /\ toolchain[1] \in Channels /\ toolchain[2] = "-"

\* the shorthand of a toolchain that matches: channel, or channel-date
ToolchainShorthand(toolchain) ==
    IF Len(toolchain) >= 4 /\ toolchain[3] \in Dates /\ toolchain[4] = "-"
    THEN SubSeq(toolchain, 1, 3)
    ELSE <<toolchain[1]>>

\* the order of the symbols of toolchain names, and of the names
SymbolOrder == <<" ", "-", "1.15.1", "2017-01-01", "beta", "nightly", "stable",
                 "x86_64-unknown-linux-gnu">>
SymbolRank(x) == CHOOSE i \in 1..Len(SymbolOrder) : SymbolOrder[i] = x

RECURSIVE StrLess(_, _)
StrLess(a, b) ==
    IF b = <<>> THEN FALSE
    ELSE IF a = <<>> THEN TRUE
    ELSE IF Head(a) = Head(b) THEN StrLess(Tail(a), Tail(b))
    ELSE SymbolRank(Head(a)) < SymbolRank(Head(b))

\* list.sort()
RECURSIVE Sorted(_)
Sorted(l) ==
    IF l = <<>> THEN <<>>
    ELSE LET least == CHOOSE i \in 1..Len(l) :
                 /\ \A j \in 1..Len(l) : ~StrLess(l[j], l[i])
                 /\ \A j \in 1..(i - 1) : l[j] # l[i]
         IN  <<l[least]>> \o Sorted([k \in 1..(Len(l) - 1) |->
                                        IF k < least THEN l[k] ELSE l[k + 1]])

\* shorthands of _toolchain_list: each shorthand once, in order of appearance
RECURSIVE Shorthands(_, _)
Shorthands(output, seen) ==
    IF output = <<>> THEN seen
    ELSE LET toolchain == Head(output)
             shorthand == ToolchainShorthand(toolchain)
         IN  IF ToolchainMatches(toolchain)
                 /\ ~\E i \in 1..Len(seen) : seen[i] = shorthand
             THEN Shorthands(Tail(output), Append(seen, shorthand))
             ELSE Shorthands(Tail(output), seen)

_toolchain_list ==
    LET lines == RustupToolchainList
        system_default == index_with(lines,
                              {l \in {lines[i] : i \in 1..Len(lines)} :
                                  EndsWith(l, <<" ", "(default)">>)})
        output == [i \in 1..Len(lines) |->
                     IF i = system_default + 1
                     THEN DropSuffix(lines[i], <<" ", "(default)">>) ELSE lines[i]]
    IN  Sorted(Shorthands(output, <<>>) \o output)

items_toolchain(f) ==
    IF "which" \notin DOMAIN f.choices \/ "package" \notin DOMAIN f.choices
    THEN Raise("KeyError")
    ELSE LET toolchains == _toolchain_list
             items == << << Str(<<"Use Default Toolchain">>), None >> >>
                      \o [i \in 1..Len(toolchains) |->
                            << Str(toolchains[i]), Str(toolchains[i]) >>]
         IN  IF f.choices.which = Str(<<"variant">>)
             THEN IF "variant" \notin DOMAIN f.choices THEN Raise("KeyError")
                  ELSE Items(f, [items |-> items,
                                 default |-> get_with_variant(f.settings.project_data,
                                     f.choices.package, f.choices.variant,
                                     "toolchain", None)])
             ELSE IF f.choices.which = Str(<<"target">>)
             THEN IF "target" \notin DOMAIN f.choices THEN Raise("KeyError")
                  ELSE Items(f, [items |-> items,
                                 default |-> get_with_target(f.settings.project_data,
                                     f.choices.package, f.choices.target,
                                     "toolchain", None)])
             ELSE Raise("AssertionError")

items_no_default_features(f) ==
    IF {"package", "target"} \subseteq DOMAIN f.choices
    THEN Items(f, [items |->
                     << << Str(<<"Include default features.">>), Bool(FALSE) >>,
                        << Str(<<"Do not include default features.">>), Bool(TRUE) >> >>,
                   default |-> get_with_target(f.settings.project_data, f.choices.package,
                                   f.choices.target, "no_default_features", Bool(FALSE))])
    ELSE Raise("KeyError")

\* the names the features prompt shows for a package: every feature but
\* 'default' and, when the default features are included, but its members
FeatureNames(features, no_default_features) ==
    LET names == [i \in 1..Len(features) |-> features[i].name]
        has_default == \E i \in 1..Len(names) : names[i] = <<"default">>
        default_deps == IF has_default
                        THEN features[CHOOSE i \in 1..Len(names) :
                                          names[i] = <<"default">>].deps
                        ELSE <<>>
        dropped(n) == /\ has_default
                      /\ \/ n = <<"default">>
                         \/ /\ ~Truthy(no_default_features)
                            /\ \E i \in 1..Len(default_deps) : default_deps[i] = n
    IN  SelectSeq(names, LAMBDA n : ~dropped(n))

items_features(f) ==
    IF {"package", "target"} \subseteq DOMAIN f.choices
    THEN LET stored == get_with_target(f.settings.project_data, f.choices.package,
                                       f.choices.target, "features", None)
         IN  IF stored # None
             THEN Items(f, [caption |-> Str(<<"Choose features">>), default |-> stored])
             ELSE IF f.choices.package \notin DOMAIN f.packages
                     \/ "no_default_features" \notin DOMAIN f.choices
             THEN Raise("KeyError")
             ELSE Items(f, [caption |-> Str(<<"Choose features">>),
                            default |-> Str(Join(FeatureNames(
                                f.packages[f.choices.package].features,
                                f.choices.no_default_features)))])
    ELSE Raise("KeyError")

\* The item source of a command class derived from CargoConfigBase outside
\* this repository, whose items_custom returns a dict that has neither
\* 'items' nor 'caption'
items_custom(f) == Items(f, [default |-> Str(<<"x">>)])

\* the class attribute `sequence` of each command
sequence(cls) ==
    CASE cls = "CargoSetProfile" -> <<"package", "target", "profile">>
      [] cls = "CargoSetTarget" -> <<"variant", "package", "target">>
      [] cls = "CargoSetTriple" -> <<"package", "target", "target_triple">>
      [] cls = "CargoSetToolchain" -> <<"which">>
      [] cls = "CargoSetFeatures" ->
            <<"package", "target", "no_default_features", "features">>
      [] cls = "CargoSetCustom" -> <<"package", "target", "custom">>

\* getattr(self, 'items_' + q)()
ItemSource(f, q) ==
    CASE q = "package" -> items_package(f)
      [] q = "target" -> items_target(f)
      [] q = "variant" -> items_variant(f)
      [] q = "profile" -> items_profile(f)
      [] q = "target_triple" -> items_target_triple(f)
      [] q = "which" -> items_which(f)
      [] q = "toolchain" -> items_toolchain(f)
      [] q = "no_default_features" -> items_no_default_features(f)
      [] q = "features" -> items_features(f)
      [] q = "custom" -> items_custom(f)

\* f_selected(value) for getattr(self, 'selected_' + q, None): the names to
\* add (none when the class has no such method), or the error raised
Selected(cls, q, value) ==
    IF cls = "CargoSetToolchain" /\ q = "which" THEN selected_which(value)
    ELSE [ok |-> TRUE, next |-> <<>>]

\* the toolchain written to the defaults whatever `which` is
ToolchainScope_Defaults(c) ==
    <<"target", None, "toolchain", c.toolchain>>

\* the setter call of CargoSetToolchain.done: the scope is the variant or
\* the target chosen, according to `which`
ToolchainScope(c) ==
    IF c.which = Str(<<"variant">>)
    THEN <<"variant", c.variant, "toolchain", c.toolchain>>
    ELSE <<"target", c.target, "toolchain", c.toolchain>>

\* a variant that stores the truth value of the chosen profile name
ProfileRelease_Truthy(profile) == Bool(Truthy(profile))

\* the value CargoSetProfile.done stores: self.choices['profile'] == 'release'
ProfileRelease(profile) == Bool(profile = Str(<<"release">>))

\* done() of each class: the calls of the setters it makes, in order, as
\* <<layer kind, selector or variant, key, value>>, and the error that ends
\* it ("" when it returns): a KeyError when it reads a choice that was not
\* made
DoneWrites(f) ==
    LET c == f.choices
        has(keys) == keys \subseteq DOMAIN c
        returns(writes) == [writes |-> writes, error |-> ""]
        raises(writes, error) == [writes |-> writes, error |-> error]
    IN  CASE f.cls = "CargoSetProfile" ->
                IF has({"package", "target", "profile"})
                THEN returns(<< <<"target", c.target, "release",
                                  ProfileRelease(c.profile)>> >>)
                ELSE raises(<<>>, "KeyError")
          [] f.cls = "CargoSetTarget" ->
                IF has({"package", "variant", "target"})
                THEN returns(<< <<"variant", c.variant, "target", c.target>> >>)
                ELSE raises(<<>>, "KeyError")
          [] f.cls = "CargoSetTriple" ->
                IF has({"package", "target", "target_triple"})
                THEN returns(<< <<"target", c.target, "target_triple",
                                  c.target_triple>> >>)
                ELSE raises(<<>>, "KeyError")
          [] f.cls = "CargoSetToolchain" ->
                IF ~has({"which"}) THEN raises(<<>>, "KeyError")
                ELSE IF c.which = Str(<<"variant">>)
                THEN IF has({"package", "variant", "toolchain"})
                     THEN returns(<< ToolchainScope(c) >>)
                     ELSE raises(<<>>, "KeyError")
                ELSE IF c.which = Str(<<"target">>)
                THEN IF has({"package", "target", "toolchain"})
                     THEN returns(<< ToolchainScope(c) >>)
                     ELSE raises(<<>>, "KeyError")
                ELSE raises(<<>>, "AssertionError")
          [] f.cls = "CargoSetFeatures" ->
                IF ~has({"package", "target", "no_default_features"})
                THEN raises(<<>>, "KeyError")
                ELSE IF ~has({"features"})
                THEN raises(<< <<"target", c.target, "no_default_features",
                                 c.no_default_features>> >>, "KeyError")
                ELSE returns(<< <<"target", c.target, "no_default_features",
                                  c.no_default_features>>,
                                <<"target", c.target, "features", c.features>> >>)
          [] f.cls = "CargoSetCustom" ->
                IF has({"package", "target", "custom"})
                THEN returns(<< <<"target", c.target, "custom", c.custom>> >>)
                ELSE raises(<<>>, "KeyError")

\* project_data after the setter calls of done
RECURSIVE ApplyWrites(_, _, _)
ApplyWrites(project_data, path, writes) ==
    IF writes = <<>> THEN project_data
    ELSE LET w == Head(writes)
             pd == IF w[1] = "variant"
                   THEN set_with_variant(project_data, path, w[2], w[3], w[4])
                   ELSE set_with_target(project_data, path, w[2], w[3], w[4])
         IN  ApplyWrites(pd, path, Tail(writes))

----------------------------------------------------------------------------
(* State *)

VARIABLES
    store,      \* window.project_data(): the tree kept in the sublime-project
    settings,   \* a CargoSettings object used directly (as tests/test_cargo_build.py does)
    lastCmd,    \* the get_command call on `settings` whose result the caller holds
    nwrites,    \* number of window.set_project_data() calls so far
    flows,      \* the cargo_set_* command objects of the window, by class name
    recent,     \* RECENT_CHOICES
    runs,       \* number of run() calls of the command objects so far
    lastGet,    \* the get_with_target / get_with_variant call on `settings` whose
                \* value the caller holds
    thread,     \* the Cargo Exec thread of the window: what its run() did
    againCmd,   \* a second get_command call on `settings`, made while the
                \* caller holds the result of the first
    listing,    \* an items_target call made on its own: its object and result
    search      \* a _find_cargo_manifest call in progress: its loop variable

vars == <<store, settings, lastCmd, nwrites, flows, recent, runs, lastGet, thread, againCmd, listing, search>>

\* number of set_project_data calls explored
MaxWrites == 3

NoCmd == [called |-> FALSE]
NoGet == [called |-> FALSE]
NoThread == [ran |-> FALSE]
NoListing == [called |-> FALSE]
NoSearch == [pc |-> "idle"]

\* The values a settings key is given in the runs explored
T_bin1 == Str(<<"--bin", " ", "bin1">>)
T_lib == Str(<<"--lib">>)
Auto == Str(<<"auto">>)
Nightly == Str(<<"nightly">>)

ValuesOf(key) ==
    CASE key = "toolchain" -> {None, Str(<<>>), Nightly}
      [] key = "release" -> {Bool(TRUE), Bool(FALSE)}
      [] key = "target" -> {Auto, T_bin1}
      [] key = "target_triple" -> {Str(<<"a-b-c">>)}
      [] key = "extra_cargo_args" -> {Str(<<"--verbose">>)}
      [] key = "extra_run_args" -> {Str(<<"this", " ", "test">>)}

\* state after construction: CargoSettings(window), nothing loaded, no
\* cargo_set_* command run yet
Init ==
    /\ store = None
    /\ settings = [project_data |-> None, manifest_dir |-> None]
    /\ lastCmd = NoCmd
    /\ nwrites = 0
    /\ flows = EmptyDict
    /\ recent = EmptyDict
    /\ runs = 0
    /\ lastGet = NoGet
    /\ thread = NoThread
    /\ againCmd = NoCmd
    /\ listing = NoListing
    /\ search = NoSearch

\* CargoSettings.load() with `view` the active view.  project_data is read
\* before the manifest is searched; without a manifest LoadSettingsError is
\* raised and manifest_dir keeps its value.
Load(view) ==
    LET pd == IF store = None THEN EmptyDict ELSE store
        found == _find_cargo_manifest(_determine_working_directory(view))
    IN  /\ lastCmd = NoCmd
        /\ settings' = [project_data |-> pd,
                        manifest_dir |-> IF found = None THEN settings.manifest_dir
                                         ELSE found]
        /\ UNCHANGED <<store, lastCmd, nwrites, flows, recent, runs, lastGet, thread, againCmd, listing, search>>

\* The caller goes on only after a load that succeeded, and makes one call
\* at a time: it has dropped the vector of its last get_command call.
Loaded == settings.manifest_dir # None /\ lastCmd = NoCmd

\* settings.set_with_target(path, target, key, value)
SetWithTarget(path, target, key, value) ==
    /\ Loaded
    /\ nwrites < MaxWrites
    /\ LET pd == set_with_target(settings.project_data, path, target, key, value)
       IN  /\ settings' = [settings EXCEPT !.project_data = pd]
           /\ store' = pd
    /\ nwrites' = nwrites + 1
    /\ UNCHANGED <<lastCmd, flows, recent, runs, lastGet, thread, againCmd, listing, search>>

\* settings.set_with_variant(path, variant, key, value)
SetWithVariant(path, variant, key, value) ==
    /\ Loaded
    /\ nwrites < MaxWrites
    /\ LET pd == set_with_variant(settings.project_data, path, variant, key, value)
       IN  /\ settings' = [settings EXCEPT !.project_data = pd]
           /\ store' = pd
    /\ nwrites' = nwrites + 1
    /\ UNCHANGED <<lastCmd, flows, recent, runs, lastGet, thread, againCmd, listing, search>>

\* settings.get_command(cmd_info, initial_settings) with `view` active
GetCommand(cmd, initial_settings, view) ==
    /\ Loaded
    /\ lastCmd' = [called |-> TRUE, cmd |-> cmd, cmd_info |-> CARGO_COMMANDS[cmd],
                   initial_settings |-> initial_settings, view |-> view,
                   project_data |-> settings.project_data,
                   manifest_dir |-> settings.manifest_dir,
                   result |-> get_command(settings.project_data, settings.manifest_dir,
                                          CARGO_COMMANDS[cmd], initial_settings, view)]
    /\ settings' = [settings EXCEPT
                      !.project_data = TreeAfterGet(@, settings.manifest_dir)]
    /\ UNCHANGED <<store, nwrites, flows, recent, runs, lastGet, thread, againCmd, listing, search>>

\* a second get_command call of the same arguments that reads the tree the
\* window holds instead of the one the object loaded
GetCommandAgain_FromWindow(view) ==
    /\ lastCmd # NoCmd
    /\ againCmd = NoCmd
    /\ againCmd' = [called |-> TRUE, cmd |-> lastCmd.cmd, cmd_info |-> lastCmd.cmd_info,
                    initial_settings |-> lastCmd.initial_settings, view |-> view,
                    project_data |-> settings.project_data,
                    manifest_dir |-> settings.manifest_dir,
                    result |-> get_command(IF store = None THEN EmptyDict ELSE store,
                                           settings.manifest_dir, lastCmd.cmd_info,
                                           lastCmd.initial_settings, view)]
    /\ UNCHANGED <<store, settings, lastCmd, nwrites, flows, recent, runs, lastGet,
                   thread, listing, search>>

\* settings.get_command(cmd_info, initial_settings) called once more on the
\* same object with the arguments of the call before, `view` active
GetCommandAgain(view) ==
    /\ lastCmd # NoCmd
    /\ againCmd = NoCmd
    /\ againCmd' = [called |-> TRUE, cmd |-> lastCmd.cmd, cmd_info |-> lastCmd.cmd_info,
                    initial_settings |-> lastCmd.initial_settings, view |-> view,
                    project_data |-> settings.project_data,
                    manifest_dir |-> settings.manifest_dir,
                    result |-> get_command(settings.project_data, settings.manifest_dir,
                                           lastCmd.cmd_info, lastCmd.initial_settings,
                                           view)]
    /\ UNCHANGED <<store, settings, lastCmd, nwrites, flows, recent, runs, lastGet,
                   thread, listing, search>>

\* the caller is done with the vectors get_command returned
Discard ==
    /\ lastCmd # NoCmd
    /\ lastCmd' = NoCmd
    /\ againCmd' = NoCmd
    /\ UNCHANGED <<store, settings, nwrites, flows, recent, runs, lastGet, thread, listing, search>>

\* The inputs of the runs explored
LayerKeys == {"toolchain", "release", "target", "target_triple", "extra_run_args"}
SetTargets == {None, T_bin1}
SetVariants == {Str(<<"build">>)}
Commands == {"build", "clippy", "script"}
Overrides ==
    {EmptyDict,
     [toolchain |-> Nightly],
     [toolchain |-> None, release |-> Bool(TRUE)],
     [release |-> Bool(FALSE), extra_cargo_args |-> Str(<<"--verbose">>)],
     [target |-> T_bin1],
     [target |-> T_lib, target_triple |-> None]}
CmdViews == {ViewBin1, ViewToml}

Next ==
    \/ \E view \in Views : Load(view)
    \/ \E target \in SetTargets, key \in LayerKeys : \E value \in ValuesOf(key) :
          SetWithTarget(Str(P1Dir), target, key, value)
    \/ \E variant \in SetVariants, key \in LayerKeys : \E value \in ValuesOf(key) :
          SetWithVariant(Str(P1Dir), variant, key, value)
    \/ \E cmd \in Commands, initial_settings \in Overrides, view \in CmdViews :
          GetCommand(cmd, initial_settings, view)
    \/ Discard

Spec == Init /\ [][Next]_vars

\* The toolchain and the target stored in every layer, and the commands
\* with and without allows_target resolved on the result
SelectorKeys == {"toolchain", "target"}
SelectorCommands == {"build", "clippy", "script", "clean"}
SelectorOverrides ==
    {EmptyDict,
     [toolchain |-> None, release |-> Bool(TRUE)],
     [target |-> T_bin1],
     [target |-> T_lib, target_triple |-> None]}

NextSelectors ==
    \/ \E view \in Views : Load(view)
    \/ \E target \in SetTargets, key \in SelectorKeys : \E value \in ValuesOf(key) :
          SetWithTarget(Str(P1Dir), target, key, value)
    \/ \E variant \in SetVariants, key \in SelectorKeys : \E value \in ValuesOf(key) :
          SetWithVariant(Str(P1Dir), variant, key, value)
    \/ \E cmd \in SelectorCommands, initial_settings \in SelectorOverrides,
          view \in CmdViews : GetCommand(cmd, initial_settings, view)
    \/ Discard

SpecSelectors == Init /\ [][NextSelectors]_vars

----------------------------------------------------------------------------
(* rust/cargo_config.py: CargoConfigBase, the question sequence *)

\* number of run() calls explored
MaxRuns == 2

NoPrompt == [kind |-> "none"]

\* A command object after construction.  pc tells how its last run stands:
\* "new" (never run), "asking" (a panel is open), "done" (done() returned),
\* "cancelled" (a panel was dismissed), "failed" (an exception was raised),
\* "noload" (LoadSettingsError).  The last fields record what the current
\* run did: the questions reached (visited), what the item source of each
\* gave (infos), the questions a panel was shown for (prompted), whether a
\* panel was dismissed, the calls of done, the calls of the setters (writes)
\* and the tree the store held when the run started.
NewCommand(cls) ==
    [cls |-> cls, pc |-> "new", error |-> "",
     input |-> EmptyDict, _sequence |-> <<>>, sequence_index |-> 0,
     choices |-> EmptyDict,
     settings |-> [project_data |-> None, manifest_dir |-> None],
     packages |-> EmptyDict, prompt |-> NoPrompt,
     visited |-> <<>>, infos |-> <<>>, prompted |-> <<>>, dismissed |-> FALSE,
     done_calls |-> 0, writes |-> 0, store_at_run |-> None]

\* The engine works on a record ms of the object f and of the shared state
\* it reads and writes: store, recent (RECENT_CHOICES) and nwrites.

\* the exception `error` leaves the run
Fail(ms, error) == [ms EXCEPT !.f.pc = "failed", !.f.error = error]

\* a variant of done whose setters start from the tree the window holds now
done_Reload(ms) ==
    LET f == ms.f
        calls == DoneWrites(f)
        n == Len(calls.writes)
        pd == ApplyWrites(IF ms.store = None THEN EmptyDict ELSE ms.store,
                          DictGet(f.choices, "package", None), calls.writes)
    IN  [ms EXCEPT !.f.settings.project_data = pd,
                   !.f.done_calls = @ + 1,
                   !.f.writes = @ + n,
                   !.f.pc = IF calls.error = "" THEN "done" ELSE "failed",
                   !.f.error = calls.error,
                   !.store = IF n > 0 THEN pd ELSE @,
                   !.nwrites = @ + n]

\* self.done(): the setters write the object's project_data through to the
\* window, once per setter call
done(ms) ==
    LET f == ms.f
        calls == DoneWrites(f)
        n == Len(calls.writes)
        pd == ApplyWrites(f.settings.project_data,
                          DictGet(f.choices, "package", None), calls.writes)
    IN  [ms EXCEPT !.f.settings.project_data = pd,
                   !.f.done_calls = @ + 1,
                   !.f.writes = @ + n,
                   !.f.pc = IF calls.error = "" THEN "done" ELSE "failed",
                   !.f.error = calls.error,
                   !.store = IF n > 0 THEN pd ELSE @,
                   !.nwrites = @ + n]

\* a variant that presents the items as the item source gave them
PresentedItems_AsGiven(item_info) == item_info.items

\* the list presented: items, with the default appended when no entry has
\* its value
PresentedItems(item_info) ==
    IF "default" \in DOMAIN item_info
       /\ index_with(item_info.items,
                     {x \in {item_info.items[i] : i \in 1..Len(item_info.items)} :
                         x[2] = item_info.default}) = -1
    THEN Append(item_info.items, <<item_info.default, item_info.default>>)
    ELSE item_info.items

\* a variant that prefers the recent choice to the default of the item source
DefaultIndex_RecentFirst(item_info, items, recent_choices, q) ==
    LET wanted == IF q \in DOMAIN recent_choices THEN {recent_choices[q]}
                  ELSE IF "default" \in DOMAIN item_info THEN {item_info.default}
                  ELSE {}
    IN  index_with(items, {x \in {items[i] : i \in 1..Len(items)} : x[2] \in wanted})

\* the index show_quick_panel is given as the selected one
DefaultIndex(item_info, items, recent_choices, q) ==
    LET wanted == IF "default" \in DOMAIN item_info THEN {item_info.default}
                  ELSE IF q \in DOMAIN recent_choices THEN {recent_choices[q]}
                  ELSE {}
    IN  index_with(items, {x \in {items[i] : i \in 1..Len(items)} : x[2] \in wanted})

\* a variant that starts the sequence over with the names the hook gave
ExtendSequence_Replace(_sequence, next) == next

\* self._sequence after self._sequence.extend(next)
ExtendSequence(_sequence, next) == _sequence \o next

\* Op(v), with v evaluated once and handed on as a value
AtValue(Op(_), v) == CHOOSE r \in {Op(x) : x \in {v}} : TRUE

RECURSIVE show_next_question(_), make_choice(_, _, _)

\* a variant of make_choice that records every answer in RECENT_CHOICES
make_choice_RecordsRecent(ms, q, value) ==
    AtValue(LAMBDA m :
        LET hook == Selected(m.f.cls, q, value)
            m1 == [m EXCEPT !.f.choices = DictSet(@, q, value),
                            !.f.prompt = NoPrompt,
                            !.recent = DictSet(@, q, value)]
        IN  IF ~hook.ok THEN Fail(m1, hook.error)
            ELSE show_next_question(
                     [m1 EXCEPT !.f._sequence =
                         IF hook.next # <<>>
                         THEN ExtendSequence(@, hook.next)
                         ELSE @]), ms)

\* a variant of make_choice that goes on without recording the answer
make_choice_NoRecord(ms, q, value) ==
    AtValue(LAMBDA m :
        LET hook == Selected(m.f.cls, q, value)
            m1 == [m EXCEPT !.f.prompt = NoPrompt]
        IN  IF ~hook.ok THEN Fail(m1, hook.error)
            ELSE show_next_question(
                     [m1 EXCEPT !.f._sequence =
                         IF hook.next # <<>>
                         THEN ExtendSequence(@, hook.next)
                         ELSE @]), ms)

\* a variant without the test of index: -1 indexes the last entry
wrapper_NoCancelCheck(ms, q, items, index) ==
    LET chosen == items[IF index = -1 THEN Len(items) ELSE index + 1][2]
    IN  make_choice([ms EXCEPT !.recent = DictSet(@, q, chosen)], q, chosen)

\* wrapper(index) of the question q whose list is items; index -1 is a
\* panel dismissed
wrapper(ms, q, items, index) ==
    IF index # -1
    THEN LET chosen == items[index + 1][2]
         IN  make_choice([ms EXCEPT !.recent = DictSet(@, q, chosen)], q, chosen)
    ELSE [ms EXCEPT !.f.pc = "cancelled", !.f.prompt = NoPrompt]

\* a variant that never skips a question
SkipsPrompt_Never(item_info) == FALSE

\* item_info.get('skip_if_one', False) and len(items) == 1
SkipsPrompt(item_info) ==
    Truthy(DictGet(item_info, "skip_if_one", Bool(FALSE))) /\ Len(item_info.items) = 1

\* a variant that looks at skip_if_one before it looks at the input
AskQuestion_SkipBeforeInput(ms, q, src) ==
    IF ~src.ok THEN Fail([ms EXCEPT !.f.infos = Append(@, src)], src.error)
    ELSE LET item_info == src.info
             ms1 == [ms EXCEPT !.f.packages = src.packages,
                               !.f.infos = Append(@, [ok |-> TRUE, info |-> item_info])]
         IN  IF "items" \in DOMAIN item_info /\ SkipsPrompt(item_info)
             THEN wrapper(ms1, q, item_info.items, 0)
             ELSE IF q \in DOMAIN ms.f.input
             THEN make_choice(ms1, q, ms.f.input[q])
             ELSE IF "items" \in DOMAIN item_info
             THEN LET items == PresentedItems(item_info)
                  IN  [ms1 EXCEPT
                         !.f.pc = "asking",
                         !.f.prompted = Append(@, q),
                         !.f.prompt =
                            [kind |-> "list", q |-> q, items |-> items,
                             selected_index |->
                                DefaultIndex(item_info, items, ms.recent, q)]]
             ELSE IF "caption" \in DOMAIN item_info
             THEN [ms1 EXCEPT
                     !.f.pc = "asking",
                     !.f.prompted = Append(@, q),
                     !.f.prompt =
                        [kind |-> "text", q |-> q,
                         caption |-> item_info.caption,
                         initial |-> DictGet(item_info, "default", Str(<<>>))]]
             ELSE Fail(ms1, "ValueError")

\* a variant that takes the default of a dict without 'items' and 'caption'
\* as the answer
AskQuestion_MalformedAnswered(ms, q, src) ==
    IF ~src.ok THEN Fail([ms EXCEPT !.f.infos = Append(@, src)], src.error)
    ELSE LET item_info == src.info
             ms1 == [ms EXCEPT !.f.packages = src.packages,
                               !.f.infos = Append(@, [ok |-> TRUE, info |-> item_info])]
         IN  IF q \in DOMAIN ms.f.input
             THEN make_choice(ms1, q, ms.f.input[q])
             ELSE IF "items" \in DOMAIN item_info /\ SkipsPrompt(item_info)
             THEN wrapper(ms1, q, item_info.items, 0)
             ELSE IF "items" \in DOMAIN item_info
             THEN LET items == PresentedItems(item_info)
                  IN  [ms1 EXCEPT
                         !.f.pc = "asking",
                         !.f.prompted = Append(@, q),
                         !.f.prompt =
                            [kind |-> "list", q |-> q, items |-> items,
                             selected_index |->
                                DefaultIndex(item_info, items, ms.recent, q)]]
             ELSE IF "caption" \in DOMAIN item_info
             THEN [ms1 EXCEPT
                     !.f.pc = "asking",
                     !.f.prompted = Append(@, q),
                     !.f.prompt =
                        [kind |-> "text", q |-> q,
                         caption |-> item_info.caption,
                         initial |-> DictGet(item_info, "default", Str(<<>>))]]
             ELSE make_choice(ms1, q, DictGet(item_info, "default", None))

\* show_next_question from `item_info = getattr(self, 'items_' + q)()` on,
\* src being what the item source gave
AskQuestion(ms, q, src) ==
    IF ~src.ok THEN Fail([ms EXCEPT !.f.infos = Append(@, src)], src.error)
    ELSE LET item_info == src.info
             ms1 == [ms EXCEPT !.f.packages = src.packages,
                               !.f.infos = Append(@, [ok |-> TRUE, info |-> item_info])]
         IN  IF q \in DOMAIN ms.f.input
             THEN make_choice(ms1, q, ms.f.input[q])
             ELSE IF "items" \in DOMAIN item_info /\ SkipsPrompt(item_info)
             THEN wrapper(ms1, q, item_info.items, 0)
             ELSE IF "items" \in DOMAIN item_info
             THEN LET items == PresentedItems(item_info)
                  IN  [ms1 EXCEPT
                         !.f.pc = "asking",
                         !.f.prompted = Append(@, q),
                         !.f.prompt =
                            [kind |-> "list", q |-> q, items |-> items,
                             selected_index |->
                                DefaultIndex(item_info, items, ms.recent, q)]]
             ELSE IF "caption" \in DOMAIN item_info
             THEN [ms1 EXCEPT
                     !.f.pc = "asking",
                     !.f.prompted = Append(@, q),
                     !.f.prompt =
                        [kind |-> "text", q |-> q,
                         caption |-> item_info.caption,
                         initial |-> DictGet(item_info, "default", Str(<<>>))]]
             ELSE Fail(ms1, "ValueError")

\* a variant that calls done one question early
show_next_question_OffByOne(ms) ==
    AtValue(LAMBDA m :
        IF m.f.sequence_index + 1 < Len(m.f._sequence)
        THEN LET q == m.f._sequence[m.f.sequence_index + 1]
             IN  AtValue(LAMBDA m1 :
                     AtValue(LAMBDA src : AskQuestion(m1, q, src),
                             ItemSource(m1.f, q)),
                     [m EXCEPT !.f.sequence_index = @ + 1,
                               !.f.visited = Append(@, q)])
        ELSE done(m), ms)

show_next_question(ms) ==
    AtValue(LAMBDA m :
        IF m.f.sequence_index < Len(m.f._sequence)
        THEN LET q == m.f._sequence[m.f.sequence_index + 1]
             IN  AtValue(LAMBDA m1 :
                     AtValue(LAMBDA src : AskQuestion(m1, q, src),
                             ItemSource(m1.f, q)),
                     [m EXCEPT !.f.sequence_index = @ + 1,
                               !.f.visited = Append(@, q)])
        ELSE done(m), ms)

make_choice(ms, q, value) ==
    AtValue(LAMBDA m :
        LET hook == Selected(m.f.cls, q, value)
            m1 == [m EXCEPT !.f.choices = DictSet(@, q, value),
                            !.f.prompt = NoPrompt]
        IN  IF ~hook.ok THEN Fail(m1, hook.error)
            ELSE show_next_question(
                     [m1 EXCEPT !.f._sequence =
                         IF hook.next # <<>>
                         THEN ExtendSequence(@, hook.next)
                         ELSE @]), ms)

\* the state of the engine for object cls, and the variables after it ran
EngineState(cls) ==
    [f |-> flows[cls], store |-> store, recent |-> recent, nwrites |-> nwrites]

\* a variant where the choices are one dict shared by all the objects
Commit_SharedChoices(cls, ms) ==
    /\ flows' = [c \in DOMAIN flows |->
                    IF c = cls THEN ms.f
                    ELSE [flows[c] EXCEPT !.choices = ms.f.choices]]
    /\ store' = ms.store
    /\ recent' = ms.recent
    /\ nwrites' = ms.nwrites
    /\ UNCHANGED <<settings, lastCmd, lastGet, thread, againCmd, listing, search>>

Commit(cls, ms) ==
    /\ flows' = [flows EXCEPT ![cls] = ms.f]
    /\ store' = ms.store
    /\ recent' = ms.recent
    /\ nwrites' = ms.nwrites
    /\ UNCHANGED <<settings, lastCmd, lastGet, thread, againCmd, listing, search>>

\* run() going on to the questions after a load that failed
Run_IgnoreLoadError(cls, input, view) ==
    /\ runs < MaxRuns
    /\ runs' = runs + 1
    /\ LET found == _find_cargo_manifest(_determine_working_directory(view))
           f0 == [flows[cls] EXCEPT
                    !.sequence_index = 0,
                    !._sequence = sequence(cls),
                    !.input = input,
                    !.settings = [project_data |-> IF store = None THEN EmptyDict
                                                   ELSE store,
                                  manifest_dir |-> found],
                    !.prompt = NoPrompt, !.error = "",
                    !.visited = <<>>, !.infos = <<>>, !.prompted = <<>>,
                    !.dismissed = FALSE, !.done_calls = 0, !.writes = 0,
                    !.store_at_run = store]
       IN  \E ms \in {show_next_question(
               [EngineState(cls) EXCEPT !.f = [f0 EXCEPT !.choices = EmptyDict]])} :
               Commit(cls, ms)

\* run() going on with the working sequence and the choices the object has
\* from its last run
Run_KeepsState(cls, input, view) ==
    /\ runs < MaxRuns
    /\ runs' = runs + 1
    /\ LET found == _find_cargo_manifest(_determine_working_directory(view))
           f0 == [flows[cls] EXCEPT
                    !.sequence_index = 0,
                    !._sequence = IF @ = <<>> THEN sequence(cls) ELSE @,
                    !.input = input,
                    !.settings = [project_data |-> IF store = None THEN EmptyDict
                                                   ELSE store,
                                  manifest_dir |-> found],
                    !.prompt = NoPrompt, !.error = "",
                    !.visited = <<>>, !.infos = <<>>, !.prompted = <<>>,
                    !.dismissed = FALSE, !.done_calls = 0, !.writes = 0,
                    !.store_at_run = store]
       IN  IF found = None
           THEN Commit(cls, [EngineState(cls) EXCEPT !.f = [f0 EXCEPT !.pc = "noload"]])
           ELSE \E ms \in {show_next_question([EngineState(cls) EXCEPT !.f = f0])} :
                    Commit(cls, ms)

\* window.run_command of the class with arguments input, `view` active.  A
\* panel the object still has open is replaced by what this run shows.
Run(cls, input, view) ==
    /\ runs < MaxRuns
    /\ runs' = runs + 1
    /\ LET found == _find_cargo_manifest(_determine_working_directory(view))
           f0 == [flows[cls] EXCEPT
                    !.sequence_index = 0,
                    !._sequence = sequence(cls),
                    !.input = input,
                    !.settings = [project_data |-> IF store = None THEN EmptyDict
                                                   ELSE store,
                                  manifest_dir |-> found],
                    !.prompt = NoPrompt, !.error = "",
                    !.visited = <<>>, !.infos = <<>>, !.prompted = <<>>,
                    !.dismissed = FALSE, !.done_calls = 0, !.writes = 0,
                    !.store_at_run = store]
       IN  IF found = None
           THEN Commit(cls, [EngineState(cls) EXCEPT !.f = [f0 EXCEPT !.pc = "noload"]])
           ELSE \E ms \in {show_next_question(
                    [EngineState(cls) EXCEPT !.f = [f0 EXCEPT !.choices = EmptyDict]])} :
                    Commit(cls, ms)

\* the user picks entry index of the quick panel: wrapper(index)
Select(cls, index) ==
    /\ flows[cls].pc = "asking"
    /\ flows[cls].prompt.kind = "list"
    /\ index \in 0..(Len(flows[cls].prompt.items) - 1)
    /\ \E ms \in {wrapper(EngineState(cls), flows[cls].prompt.q,
                          flows[cls].prompt.items, index)} : Commit(cls, ms)
    /\ UNCHANGED runs

\* the user dismisses the quick panel: wrapper(-1)
CancelList(cls) ==
    /\ flows[cls].pc = "asking"
    /\ flows[cls].prompt.kind = "list"
    /\ \E ms \in {wrapper(EngineState(cls), flows[cls].prompt.q,
                          flows[cls].prompt.items, -1)} :
          Commit(cls, [ms EXCEPT !.f.dismissed = TRUE])
    /\ UNCHANGED runs

\* the user enters text in the input panel: make_choice(text)
EnterText(cls, text) ==
    /\ flows[cls].pc = "asking"
    /\ flows[cls].prompt.kind = "text"
    /\ \E ms \in {make_choice(EngineState(cls), flows[cls].prompt.q, text)} :
          Commit(cls, ms)
    /\ UNCHANGED runs

\* the user dismisses the input panel: on_cancel is None, nothing is called
CancelText(cls) ==
    /\ flows[cls].pc = "asking"
    /\ flows[cls].prompt.kind = "text"
    /\ flows' = [flows EXCEPT ![cls].pc = "cancelled", ![cls].prompt = NoPrompt,
                              ![cls].dismissed = TRUE]
    /\ UNCHANGED <<store, settings, lastCmd, nwrites, recent, runs, lastGet, thread, againCmd, listing, search>>

Classes == {"CargoSetProfile", "CargoSetTarget", "CargoSetTriple",
            "CargoSetToolchain", "CargoSetFeatures"}

\* a package directory no manifest is known for
P2 == Str(<<"/", "p2">>)

\* The arguments the commands are run with in the runs explored
InputsOf(cls) ==
    CASE cls = "CargoSetProfile" ->
            {EmptyDict,
             [target |-> None, profile |-> Str(<<"release">>)],
             [package |-> P2]}
      [] cls = "CargoSetTarget" ->
            {EmptyDict,
             [variant |-> Str(<<"build">>), target |-> Str(<<"--bin", " ", "gone">>)],
             [variant |-> Str(<<"clippy">>)]}
      [] cls = "CargoSetTriple" ->
            {EmptyDict,
             [target |-> None, target_triple |-> Str(<<"a-b-c">>)]}
      [] cls = "CargoSetToolchain" ->
            {EmptyDict,
             [which |-> Str(<<"variant">>), variant |-> Str(<<"build">>),
              toolchain |-> Nightly],
             [which |-> Str(<<"variant">>), package |-> P2],
             [which |-> Str(<<"both">>)]}
      [] cls = "CargoSetFeatures" ->
            {EmptyDict,
             [target |-> None, features |-> Str(<<"a">>)]}

\* the entries of a quick panel
IndexesOf(prompt) ==
    IF prompt.kind = "list" THEN 0..(Len(prompt.items) - 1) ELSE {}

\* what the user types in an input panel: the text shown, or another
TextsFor(prompt) ==
    IF prompt.kind = "text" THEN {prompt.initial, Str(<<"ALL">>)} ELSE {}

RunViews == {ViewBin1, ViewStray}

\* one command object of the window, of any of the classes
InitFlow ==
    /\ store = None
    /\ settings = [project_data |-> None, manifest_dir |-> None]
    /\ lastCmd = NoCmd
    /\ nwrites = 0
    /\ \E cls \in Classes : flows = [c \in {cls} |-> NewCommand(c)]
    /\ recent = EmptyDict
    /\ runs = 0
    /\ lastGet = NoGet
    /\ thread = NoThread
    /\ againCmd = NoCmd
    /\ listing = NoListing
    /\ search = NoSearch

NextFlow ==
    \/ \E cls \in DOMAIN flows : \E input \in InputsOf(cls), view \in RunViews :
          Run(cls, input, view)
    \/ \E cls \in DOMAIN flows : \E index \in IndexesOf(flows[cls].prompt) :
          Select(cls, index)
    \/ \E cls \in DOMAIN flows : CancelList(cls)
    \/ \E cls \in DOMAIN flows : \E text \in TextsFor(flows[cls].prompt) :
          EnterText(cls, text)
    \/ \E cls \in DOMAIN flows : CancelText(cls)

SpecFlow == InitFlow /\ [][NextFlow]_vars

\* Two command objects of the window at work at once
PairClasses == {"CargoSetProfile", "CargoSetTriple"}
PairInputsOf(cls) ==
    IF cls = "CargoSetProfile" THEN {EmptyDict, [target |-> None]}
    ELSE {[target |-> None]}

InitPair ==
    /\ store = None
    /\ settings = [project_data |-> None, manifest_dir |-> None]
    /\ lastCmd = NoCmd
    /\ nwrites = 0
    /\ flows = [c \in PairClasses |-> NewCommand(c)]
    /\ recent = EmptyDict
    /\ runs = 0
    /\ lastGet = NoGet
    /\ thread = NoThread
    /\ againCmd = NoCmd
    /\ listing = NoListing
    /\ search = NoSearch

NextPair ==
    \/ \E cls \in DOMAIN flows : \E input \in PairInputsOf(cls) :
          Run(cls, input, ViewBin1)
    \/ \E cls \in DOMAIN flows : \E index \in IndexesOf(flows[cls].prompt) :
          Select(cls, index)
    \/ \E cls \in DOMAIN flows : CancelList(cls)

SpecPair == InitPair /\ [][NextPair]_vars

\* A command whose last item source returns a malformed dict
CustomInputs == {EmptyDict, [target |-> None], [target |-> None, custom |-> Str(<<"y">>)]}
CustomViews == {ViewBin1, ViewWs}

InitCustom ==
    /\ store = None
    /\ settings = [project_data |-> None, manifest_dir |-> None]
    /\ lastCmd = NoCmd
    /\ nwrites = 0
    /\ flows = [c \in {"CargoSetCustom"} |-> NewCommand(c)]
    /\ recent = EmptyDict
    /\ runs = 0
    /\ lastGet = NoGet
    /\ thread = NoThread
    /\ againCmd = NoCmd
    /\ listing = NoListing
    /\ search = NoSearch

NextCustom ==
    \/ \E cls \in DOMAIN flows : \E input \in CustomInputs, view \in CustomViews :
          Run(cls, input, view)
    \/ \E cls \in DOMAIN flows : \E index \in IndexesOf(flows[cls].prompt) :
          Select(cls, index)
    \/ \E cls \in DOMAIN flows : CancelList(cls)

SpecCustom == InitCustom /\ [][NextCustom]_vars

\* CargoSettings._find_cargo_manifest, iteration by iteration
\* the directories of the file systems explored, and the sets of them that
\* hold a Cargo.toml
SearchDirs ==
    {RootDir, <<"/", "a">>, <<"/", "a", "/", "b">>,
     <<"/", "a", "/", "b", "/", "c">>, <<"/", "x">>}
ManifestSets == SUBSET SearchDirs

\* a variant of the loop body without the test `parent == cwd`
FindStep_NoRootTest ==
    /\ search.pc = "loop"
    /\ search' =
         IF \E d \in search.manifests :
                path_join(search.cwd, "Cargo.toml") = path_join(d, "Cargo.toml")
         THEN [search EXCEPT !.pc = "found", !.manifest_dir = Str(search.cwd)]
         ELSE [search EXCEPT !.cwd = dirname(search.cwd)]
    /\ UNCHANGED <<store, settings, lastCmd, nwrites, flows, recent, runs, lastGet,
                   thread, againCmd, listing>>

\* _find_cargo_manifest(cwd) is called, the directories in `manifests`
\* holding a Cargo.toml
FindStart(cwd, manifests) ==
    /\ search = NoSearch
    /\ search' = [pc |-> "loop", start |-> cwd, cwd |-> cwd,
                  manifests |-> manifests, manifest_dir |-> None]
    /\ UNCHANGED <<store, settings, lastCmd, nwrites, flows, recent, runs, lastGet,
                   thread, againCmd, listing>>

\* one iteration of `while True:`
FindStep ==
    /\ search.pc = "loop"
    /\ search' =
         IF \E d \in search.manifests :
                path_join(search.cwd, "Cargo.toml") = path_join(d, "Cargo.toml")
         THEN [search EXCEPT !.pc = "found", !.manifest_dir = Str(search.cwd)]
         ELSE IF dirname(search.cwd) = search.cwd
         THEN [search EXCEPT !.pc = "notfound"]
         ELSE [search EXCEPT !.cwd = dirname(search.cwd)]
    /\ UNCHANGED <<store, settings, lastCmd, nwrites, flows, recent, runs, lastGet,
                   thread, againCmd, listing>>

\* the caller has the value returned
FindReturn ==
    /\ search.pc \in {"found", "notfound"}
    /\ search' = NoSearch
    /\ UNCHANGED <<store, settings, lastCmd, nwrites, flows, recent, runs, lastGet,
                   thread, againCmd, listing>>

NextSearch ==
    \/ \E cwd \in SearchDirs, manifests \in ManifestSets : FindStart(cwd, manifests)
    \/ FindStep
    \/ FindReturn

SpecSearch == Init /\ [][NextSearch]_vars

\* the loop is not left waiting: a call that can make its next iteration
\* makes it
SpecSearchLive == SpecSearch /\ WF_vars(FindStep)

\* The toolchain command run in a window with several packages
PackageInputs ==
    {[which |-> Str(<<"variant">>), variant |-> Str(<<"build">>), toolchain |-> Nightly],
     [which |-> Str(<<"variant">>), variant |-> Str(<<"build">>), toolchain |-> Nightly,
      package |-> P2],
     [which |-> Str(<<"variant">>), variant |-> Str(<<"build">>)]}
PackageViews == {ViewBin1, ViewWs}

InitPackages ==
    /\ store = None
    /\ settings = [project_data |-> None, manifest_dir |-> None]
    /\ lastCmd = NoCmd
    /\ nwrites = 0
    /\ flows = [c \in {"CargoSetToolchain"} |-> NewCommand(c)]
    /\ recent = EmptyDict
    /\ runs = 0
    /\ lastGet = NoGet
    /\ thread = NoThread
    /\ againCmd = NoCmd
    /\ listing = NoListing
    /\ search = NoSearch

NextPackages ==
    \/ \E cls \in DOMAIN flows : \E input \in PackageInputs, view \in PackageViews :
          Run(cls, input, view)
    \/ \E cls \in DOMAIN flows : \E index \in IndexesOf(flows[cls].prompt) :
          Select(cls, index)
    \/ \E cls \in DOMAIN flows : CancelList(cls)

SpecPackages == InitPackages /\ [][NextPackages]_vars

\* items_target applied to the targets of a package
\* number of targets of the package
MaxTargets == 3

\* the targets `cargo metadata` may report for a package: at most one
\* library, of one or several kinds, executables of distinct names, the
\* build script
LibTargets ==
    {[name |-> <<"multi-targets">>, kind |-> <<"lib">>],
     [name |-> <<"multi-targets">>, kind |-> <<"rlib", "dylib">>],
     [name |-> <<"multi-targets">>, kind |-> <<"proc-macro">>]}
TargetPool ==
    LibTargets \cup
    {[name |-> <<"bin1">>, kind |-> <<"bin">>],
     [name |-> <<"bin2">>, kind |-> <<"bin">>],
     [name |-> <<"test1">>, kind |-> <<"test">>],
     [name |-> <<"ex1">>, kind |-> <<"example">>],
     [name |-> <<"bench1">>, kind |-> <<"bench">>],
     [name |-> <<"build-script-build">>, kind |-> <<"custom-build">>]}
TargetLists ==
    {l \in UNION {[1..n -> TargetPool] : n \in 0..MaxTargets} :
        /\ \A i, j \in 1..Len(l) : i # j => l[i] # l[j]
        /\ Cardinality({i \in 1..Len(l) : l[i] \in LibTargets}) <= 1}

\* the variant chosen before the target question, None when the sequence
\* has no variant question
TargetVariants == {None, Str(<<"build">>), Str(<<"run">>), Str(<<"doc">>)}

\* self.items_target() with the package and the variant chosen
ItemsTarget(targets, variant) ==
    /\ listing = NoListing
    /\ listing' =
         [called |-> TRUE, targets |-> targets, variant |-> variant,
          result |-> base_items_target(
             [choices |-> IF variant = None THEN [package |-> Str(P1Dir)]
                          ELSE [package |-> Str(P1Dir), variant |-> variant],
              packages |-> [path \in {Str(P1Dir)} |->
                              [name |-> <<"multi-targets">>, targets |-> targets]]])]
    /\ UNCHANGED <<store, settings, lastCmd, nwrites, flows, recent, runs, lastGet,
                   thread, againCmd, search>>

\* the list has been shown
DiscardListing ==
    /\ listing # NoListing
    /\ listing' = NoListing
    /\ UNCHANGED <<store, settings, lastCmd, nwrites, flows, recent, runs, lastGet,
                   thread, againCmd, search>>

NextTargets ==
    \/ \E targets \in TargetLists, variant \in TargetVariants :
          ItemsTarget(targets, variant)
    \/ DiscardListing

SpecTargets == Init /\ [][NextTargets]_vars

----------------------------------------------------------------------------
(* Building: the cargo_exec command and its thread, the getters, and the
   cargo_set_* commands run with all their answers supplied *)

\* run() with no test of the vector get_command returned
CargoExecThread_run_NoCmdCheck(window_project_data, cmd_info, initial_settings, view) ==
    LET pd == IF window_project_data = None THEN EmptyDict ELSE window_project_data
        found == _find_cargo_manifest(_determine_working_directory(view))
        call == [ran |-> TRUE, cmd_info |-> cmd_info,
                 initial_settings |-> initial_settings, view |-> view,
                 project_data |-> pd, manifest_dir |-> found]
    IN  IF found = None
        THEN call @@ [loaded |-> FALSE, result |-> None,
                      cleared |-> FALSE, started |-> None]
        ELSE LET cmd == get_command(pd, found, cmd_info, initial_settings, view)
             IN  call @@ [loaded |-> TRUE, result |-> cmd,
                          cleared |-> TRUE, started |-> cmd]

\* CargoExecThread.run() with `view` active: what it loaded, the vector
\* get_command gave it, whether it cleared the messages of the window and
\* the vector of the process it started (None: no process)
CargoExecThread_run(window_project_data, cmd_info, initial_settings, view) ==
    LET pd == IF window_project_data = None THEN EmptyDict ELSE window_project_data
        found == _find_cargo_manifest(_determine_working_directory(view))
        call == [ran |-> TRUE, cmd_info |-> cmd_info,
                 initial_settings |-> initial_settings, view |-> view,
                 project_data |-> pd, manifest_dir |-> found]
    IN  IF found = None
        THEN call @@ [loaded |-> FALSE, result |-> None,
                      cleared |-> FALSE, started |-> None]
        ELSE LET cmd == get_command(pd, found, cmd_info, initial_settings, view)
             IN  IF ~Truthy(cmd)
                 THEN call @@ [loaded |-> TRUE, result |-> cmd,
                               cleared |-> FALSE, started |-> None]
                 ELSE call @@ [loaded |-> TRUE, result |-> cmd,
                               cleared |-> TRUE, started |-> cmd]

\* no call is in progress on `settings` and no Cargo Exec thread is alive
Idle == lastCmd = NoCmd /\ lastGet = NoGet /\ thread = NoThread

\* window.run_command('cargo_exec', {command, settings}) with `view` active:
\* CargoExecCommand.run, _run, and the run() of the thread it starts
CargoExec(command, initial_settings, view) ==
    /\ Idle
    /\ thread' = CargoExecThread_run(store, CARGO_COMMANDS[command],
                                     initial_settings, view)
    /\ UNCHANGED <<store, settings, lastCmd, nwrites, flows, recent, runs, lastGet, againCmd, listing, search>>

\* the thread has returned from run()
ThreadExit ==
    /\ thread # NoThread
    /\ thread' = NoThread
    /\ UNCHANGED <<store, settings, lastCmd, nwrites, flows, recent, runs, lastGet, againCmd, listing, search>>

\* settings.get_with_target(path, target, key, default)
GetWithTarget(path, target, key, default) ==
    /\ Idle
    /\ settings.project_data # None
    /\ lastGet' = [called |-> TRUE, getter |-> "get_with_target", path |-> path,
                   scope |-> target, key |-> key, default |-> default,
                   project_data |-> settings.project_data,
                   value |-> get_with_target(settings.project_data, path, target,
                                             key, default)]
    /\ settings' = [settings EXCEPT !.project_data = TreeAfterGet(@, path)]
    /\ UNCHANGED <<store, lastCmd, nwrites, flows, recent, runs, thread, againCmd, listing, search>>

\* settings.get_with_variant(path, variant, key, default)
GetWithVariant(path, variant, key, default) ==
    /\ Idle
    /\ settings.project_data # None
    /\ lastGet' = [called |-> TRUE, getter |-> "get_with_variant", path |-> path,
                   scope |-> variant, key |-> key, default |-> default,
                   project_data |-> settings.project_data,
                   value |-> get_with_variant(settings.project_data, path, variant,
                                              key, default)]
    /\ settings' = [settings EXCEPT !.project_data = TreeAfterGet(@, path)]
    /\ UNCHANGED <<store, lastCmd, nwrites, flows, recent, runs, thread, againCmd, listing, search>>

\* the caller is done with the value the getter returned
DiscardGet ==
    /\ lastGet # NoGet
    /\ lastGet' = NoGet
    /\ UNCHANGED <<store, settings, lastCmd, nwrites, flows, recent, runs, thread, againCmd, listing, search>>

\* The inputs of the builds explored
BuildClasses == {"CargoSetTarget", "CargoSetToolchain", "CargoSetProfile"}
BuildRuns ==
    {<<"CargoSetToolchain", [which |-> Str(<<"variant">>), variant |-> Str(<<"build">>),
                             toolchain |-> Nightly], ViewBin1>>,
     <<"CargoSetToolchain", [which |-> Str(<<"variant">>), variant |-> Str(<<"build">>),
                             toolchain |-> None], ViewBin1>>,
     <<"CargoSetToolchain", [which |-> Str(<<"target">>), target |-> T_bin1,
                             toolchain |-> Nightly], ViewBin1>>,
     <<"CargoSetToolchain", [which |-> Str(<<"variant">>), variant |-> Str(<<"build">>),
                             toolchain |-> Nightly], ViewStray>>,
     <<"CargoSetTarget", [variant |-> Str(<<"build">>), target |-> T_bin1], ViewBin1>>,
     <<"CargoSetTarget", [variant |-> Str(<<"build">>), target |-> Auto], ViewBin1>>,
     <<"CargoSetTarget", [variant |-> Str(<<"build">>), target |-> T_bin1], ViewStray>>,
     <<"CargoSetProfile", [target |-> None, profile |-> Str(<<"release">>)], ViewBin1>>}
BuildCommands == {"build", "bench", "clean", "clippy", "script"}
RunArgs == Str(<<"this", " ", "test">>)
CargoArgs == Str(<<"--verbose">>)
BuildOverrides ==
    {EmptyDict,
     [target |-> Auto],
     [target |-> T_bin1],
     [release |-> Bool(TRUE), target_triple |-> Str(<<"a-b-c">>)],
     [extra_run_args |-> RunArgs],
     [extra_run_args |-> Str(<<>>)],
     [extra_cargo_args |-> CargoArgs],
     [extra_cargo_args |-> CargoArgs, extra_run_args |-> RunArgs]}
BuildViews == {ViewBin1, ViewMod, ViewStray}
AgainViews == {ViewBin1, ViewMod}
ExecCommands == {"build", "script"}
ExecOverrides == {EmptyDict, [target |-> T_bin1]}
ExecViews == {ViewBin1, ViewToml, ViewStray}
GetPaths == {Str(P1Dir), P2}
GetTargets == {None, T_bin1}
GetVariants == {Str(<<"build">>), Str(<<"clippy">>)}
GetKeys == {"toolchain", "target"}
GetDefaults == {None, Str(<<"stable">>)}

\* the window as it is opened: no project data, one object per cargo_set_*
\* class, a CargoSettings object not yet loaded
InitBuild ==
    /\ store = None
    /\ settings = [project_data |-> None, manifest_dir |-> None]
    /\ lastCmd = NoCmd
    /\ nwrites = 0
    /\ flows = [c \in BuildClasses |-> NewCommand(c)]
    /\ recent = EmptyDict
    /\ runs = 0
    /\ lastGet = NoGet
    /\ thread = NoThread
    /\ againCmd = NoCmd
    /\ listing = NoListing
    /\ search = NoSearch

NextBuild ==
    \/ \E r \in BuildRuns : Idle /\ Run(r[1], r[2], r[3])
    \/ \E view \in {ViewBin1, ViewStray} : Idle /\ Load(view)
    \/ \E cmd \in BuildCommands, initial_settings \in BuildOverrides, view \in BuildViews :
          Idle /\ GetCommand(cmd, initial_settings, view)
    \/ \E view \in AgainViews : GetCommandAgain(view)
    \/ Discard
    \/ \E path \in GetPaths, target \in GetTargets, key \in GetKeys,
          default \in GetDefaults : GetWithTarget(path, target, key, default)
    \/ \E path \in GetPaths, variant \in GetVariants, key \in GetKeys,
          default \in GetDefaults : GetWithVariant(path, variant, key, default)
    \/ DiscardGet
    \/ \E command \in ExecCommands, initial_settings \in ExecOverrides, view \in ExecViews :
          CargoExec(command, initial_settings, view)
    \/ ThreadExit

SpecBuild == InitBuild /\ [][NextBuild]_vars

\* The features command followed by get_command calls
FeatureClasses == {"CargoSetFeatures", "CargoSetToolchain"}
FeatureRuns ==
    {<<"CargoSetFeatures", [target |-> None, no_default_features |-> Bool(TRUE),
                            features |-> Str(<<"ALL">>)]>>,
     <<"CargoSetFeatures", [target |-> T_bin1, no_default_features |-> Bool(FALSE)]>>,
     <<"CargoSetFeatures", EmptyDict>>,
     <<"CargoSetToolchain", [which |-> Str(<<"variant">>), variant |-> Str(<<"build">>),
                             toolchain |-> Nightly]>>}
FeatureCommands == {"build", "run", "clippy", "clean"}
FeatureOverrides == {EmptyDict, [target |-> T_bin1, release |-> Bool(TRUE)]}

InitFeatures ==
    /\ store = None
    /\ settings = [project_data |-> None, manifest_dir |-> None]
    /\ lastCmd = NoCmd
    /\ nwrites = 0
    /\ flows = [c \in FeatureClasses |-> NewCommand(c)]
    /\ recent = EmptyDict
    /\ runs = 0
    /\ lastGet = NoGet
    /\ thread = NoThread
    /\ againCmd = NoCmd
    /\ listing = NoListing
    /\ search = NoSearch

NextFeatures ==
    \/ \E r \in FeatureRuns : Idle /\ Run(r[1], r[2], ViewBin1)
    \/ \E cls \in DOMAIN flows : \E index \in IndexesOf(flows[cls].prompt) :
          Idle /\ Select(cls, index)
    \/ \E cls \in DOMAIN flows : \E text \in TextsFor(flows[cls].prompt) :
          Idle /\ EnterText(cls, text)
    \/ Idle /\ Load(ViewBin1)
    \/ \E cmd \in FeatureCommands, initial_settings \in FeatureOverrides :
          Idle /\ GetCommand(cmd, initial_settings, ViewBin1)
    \/ Discard

SpecFeatures == InitFeatures /\ [][NextFeatures]_vars

\* The setters called on a project that holds other settings as well
OtherProject ==
    [folders |-> List(<< P1Dir >>),
     settings |-> [rust_syntax_checking |-> Bool(TRUE)]]
OtherPackage ==
    [defaults |-> [toolchain |-> Nightly, release |-> Bool(TRUE)],
     variants |-> DictSet(EmptyDict, Str(<<"build">>), [target |-> Auto]),
     targets |-> DictSet(EmptyDict, T_lib, [toolchain |-> Str(<<>>)])]
SetterTrees ==
    {None,
     [OtherProject EXCEPT
        !.settings = DictSet(@, "cargo_build",
                             [paths |-> DictSet(EmptyDict, P2, OtherPackage)])]}
SetterPaths == {Str(P1Dir), P2}
SetterTargets == {None, Str(<<>>), T_bin1}
SetterVariants == {Str(<<"build">>)}
SetterKeys == {"toolchain", "release"}

InitSetters ==
    /\ store \in SetterTrees
    /\ settings = [project_data |-> None, manifest_dir |-> None]
    /\ lastCmd = NoCmd
    /\ nwrites = 0
    /\ flows = EmptyDict
    /\ recent = EmptyDict
    /\ runs = 0
    /\ lastGet = NoGet
    /\ thread = NoThread
    /\ againCmd = NoCmd
    /\ listing = NoListing
    /\ search = NoSearch

NextSetters ==
    \/ Load(ViewBin1)
    \/ \E path \in SetterPaths, target \in SetterTargets, key \in SetterKeys :
          \E value \in ValuesOf(key) : SetWithTarget(path, target, key, value)
    \/ \E path \in SetterPaths, variant \in SetterVariants, key \in SetterKeys :
          \E value \in ValuesOf(key) : SetWithVariant(path, variant, key, value)

SpecSetters == InitSetters /\ [][NextSetters]_vars

\* Configuration commands followed by builds of the project they configure
LayerRuns ==
    {<<"CargoSetProfile", [target |-> None, profile |-> Str(<<"release">>)]>>,
     <<"CargoSetProfile", [target |-> None, profile |-> Str(<<"dev">>)]>>,
     <<"CargoSetProfile", [target |-> T_bin1, profile |-> Str(<<"release">>)]>>,
     <<"CargoSetTarget", [variant |-> Str(<<"build">>), target |-> Auto]>>,
     <<"CargoSetTarget", [variant |-> Str(<<"build">>), target |-> T_bin1]>>,
     <<"CargoSetToolchain", [which |-> Str(<<"target">>), target |-> Auto,
                             toolchain |-> Nightly]>>,
     <<"CargoSetToolchain", [which |-> Str(<<"target">>), target |-> T_bin1,
                             toolchain |-> Nightly]>>,
     <<"CargoSetToolchain", [which |-> Str(<<"variant">>), variant |-> Str(<<"build">>),
                             toolchain |-> Str(<<"beta">>)]>>}
LayerCommands == {"build", "clean"}
LayerOverrides == {EmptyDict, [target |-> T_bin1], [target |-> Auto]}
LayerViews == {ViewBin1, ViewMod}

NextLayers ==
    \/ \E r \in LayerRuns : Idle /\ Run(r[1], r[2], ViewBin1)
    \/ \E command \in LayerCommands, initial_settings \in LayerOverrides,
          view \in LayerViews : CargoExec(command, initial_settings, view)
    \/ ThreadExit

SpecLayers == InitBuild /\ [][NextLayers]_vars

----------------------------------------------------------------------------
(* Layer precedence of get_command *)

\* the keys get_command resolves with get, and the default it passes for each
ResolvedKeys ==
    {"toolchain", "target_triple", "release", "extra_cargo_args", "extra_run_args"}
BuiltinDefault(key) == IF key = "release" THEN Bool(FALSE) ELSE None

\* the selector in effect in the recorded call
CallTarget(c) ==
    DetermineTarget(c.cmd_info, c.initial_settings,
                    DictGet(DictGet(PathData(c.project_data, c.manifest_dir),
                                    "variants", EmptyDict),
                            c.cmd_info.command, EmptyDict),
                    c.view)

\* The four layers of the recorded call, highest first: one-shot overrides,
\* targets[effective selector], variants[command], defaults.  A layer that
\* does not exist is the empty dict.
CallLayers(c) ==
    LET pdata == PathData(c.project_data, c.manifest_dir)
    IN  << c.initial_settings,
           DictGet(DictGet(pdata, "targets", EmptyDict), CallTarget(c), EmptyDict),
           DictGet(DictGet(pdata, "variants", EmptyDict), c.cmd_info.command, EmptyDict),
           DictGet(pdata, "defaults", EmptyDict) >>

\* the value of key in the first of the layers that has it, else default
HighestLayerValue(layers, key, default) ==
    IF \E i \in 1..Len(layers) : key \in DOMAIN layers[i]
    THEN layers[CHOOSE i \in 1..Len(layers) :
                    /\ key \in DOMAIN layers[i]
                    /\ \A j \in 1..(i - 1) : key \notin DOMAIN layers[j]][key]
    ELSE default

\* what get gives in the recorded call
CallGet(c, key) ==
    LET pdata == PathData(c.project_data, c.manifest_dir)
    IN  get(pdata,
            DictGet(DictGet(pdata, "variants", EmptyDict), c.cmd_info.command, EmptyDict),
            CallTarget(c), c.initial_settings, key, BuiltinDefault(key))

\* C1: in every get_command call, each of the keys toolchain, target_triple,
\* release, extra_cargo_args and extra_run_args resolves to its value in the
\* highest layer that has the key (overrides, then targets[effective
\* selector], then variants[command], then defaults), and to the built-in
\* default only when no layer has it.
C1_LayerPrecedence ==
    lastCmd.called =>
        \A key \in ResolvedKeys :
            CallGet(lastCmd, key)
              = HighestLayerValue(CallLayers(lastCmd), key, BuiltinDefault(key))

\* a call where defaults, variants[build] and targets['--bin bin1'] all hold
\* a toolchain, the overrides do not, and the target layer's value is used
C1_Witness ==
    /\ lastCmd.called
    /\ lastCmd.cmd = "build"
    /\ "toolchain" \notin DOMAIN lastCmd.initial_settings
    /\ CallTarget(lastCmd) = T_bin1
    /\ \A i \in 2..4 : "toolchain" \in DOMAIN CallLayers(lastCmd)[i]
    /\ CallLayers(lastCmd)[2].toolchain = Nightly
    /\ CallLayers(lastCmd)[3].toolchain = None
    /\ CallLayers(lastCmd)[4].toolchain = Str(<<>>)
    /\ lastCmd.result.l[2] = <<"+", "nightly">>

\* d without key k
DictDel(d, k) == [x \in (DOMAIN d) \ {k} |-> d[x]]

\* the tree with key removed from the defaults, from every variants entry and
\* from every targets entry of path
StripKey(project_data, path, key) ==
    LET pdata == PathData(project_data, path)
        strip(layer) == [x \in DOMAIN layer |-> DictDel(layer[x], key)]
        p1 == IF "defaults" \in DOMAIN pdata
              THEN DictSet(pdata, "defaults", DictDel(pdata.defaults, key)) ELSE pdata
        p2 == IF "variants" \in DOMAIN p1
              THEN DictSet(p1, "variants", strip(p1.variants)) ELSE p1
        p3 == IF "targets" \in DOMAIN p2
              THEN DictSet(p2, "targets", strip(p2.targets)) ELSE p2
    IN  IF pdata = EmptyDict THEN project_data
        ELSE [project_data EXCEPT !.settings.cargo_build.paths[path] = p3]

\* the tree with key set to value in the defaults, in variants[command] and
\* in the targets entries of the selectors used
FloodKey(project_data, path, command, key, value) ==
    set_with_target(
      set_with_target(
        set_with_variant(
          set_with_target(project_data, path, None, key, value),
          path, command, key, value),
        path, T_bin1, key, value),
      path, T_lib, key, value)

\* token tok is one of the tokens of argv
HasToken(argv, tok) == \E i \in 1..Len(argv) : argv[i] = tok

\* get_command of the recorded call c with the tree pd in place of the one used
CallResultOn(c, pd) ==
    get_command(pd, c.manifest_dir, c.cmd_info, c.initial_settings, c.view)

\* C2: for every key set in the one-shot overrides of a get_command call, the
\* returned vector is the same whatever the defaults, variants and targets
\* layers hold for that key (the key removed from them, or set in them to any
\* value), and it shows the override: a truthy toolchain override is the
\* '+toolchain' token, a release override decides '--release' where the
\* command allows it.
C2_OverridesDominate ==
    lastCmd.called =>
        LET c == lastCmd
            o == c.initial_settings
        IN  /\ \A key \in DOMAIN o :
                  /\ c.result = CallResultOn(c, StripKey(c.project_data, c.manifest_dir, key))
                  /\ \A value \in ValuesOf(key) :
                        c.result = CallResultOn(c,
                            FloodKey(c.project_data, c.manifest_dir,
                                     c.cmd_info.command, key, value))
            /\ ("toolchain" \in DOMAIN o /\ c.result # None) =>
                  IF Truthy(o.toolchain)
                  THEN c.result.l[2] = <<"+">> \o o.toolchain.s
                  ELSE c.result.l[2] = c.cmd_info.command.s
            /\ ("release" \in DOMAIN o /\ c.result # None
                  /\ Truthy(DictGet(c.cmd_info, "allows_release", Bool(FALSE)))) =>
                  (HasToken(c.result.l, <<"--release">>) <=> Truthy(o.release))

\* a call whose toolchain override wins over a different toolchain stored in
\* variants[build]
C2_Witness ==
    /\ lastCmd.called
    /\ lastCmd.cmd = "build"
    /\ "toolchain" \in DOMAIN lastCmd.initial_settings
    /\ lastCmd.initial_settings.toolchain = Nightly
    /\ "toolchain" \in DOMAIN CallLayers(lastCmd)[3]
    /\ CallLayers(lastCmd)[3].toolchain = Str(<<>>)
    /\ "release" \in DOMAIN CallLayers(lastCmd)[4]
    /\ lastCmd.result.l[2] = <<"+", "nightly">>

\* what key resolves to for command and effective selector sel on the tree,
\* with no one-shot overrides
Resolve(project_data, command, sel, key) ==
    LET pdata == PathData(project_data, Str(P1Dir))
    IN  get(pdata, DictGet(DictGet(pdata, "variants", EmptyDict), command, EmptyDict),
            sel, EmptyDict, key, BuiltinDefault(key))

\* key is in variants[command], resp. in targets[sel], of the tree
InVariant(project_data, command, key) ==
    key \in DOMAIN DictGet(DictGet(PathData(project_data, Str(P1Dir)),
                                   "variants", EmptyDict), command, EmptyDict)
InTarget(project_data, sel, key) ==
    key \in DOMAIN DictGet(DictGet(PathData(project_data, Str(P1Dir)),
                                   "targets", EmptyDict), sel, EmptyDict)

CommandNames == {CARGO_COMMANDS[c].command : c \in Commands}
Selectors == {None, T_bin1, T_lib}

\* C3: a write of key to the defaults makes it resolve to the value written
\* for every command and selector that has no variant or target entry for
\* the key; a write to variants[c] changes the resolution to the value
\* written for command c only (for selectors without an entry of their own)
\* and leaves every other command's resolution as it was; a write to
\* targets[s] changes the resolution to the value written for selector s
\* only and leaves every other selector's resolution as it was.
C3_LayerScoping ==
    [][nwrites' = nwrites + 1 =>
        LET pd  == settings.project_data
            pd2 == settings'.project_data
            P   == Str(P1Dir)
        IN  \A key \in LayerKeys : \A value \in ValuesOf(key) :
              /\ pd2 = set_with_target(pd, P, None, key, value) =>
                    \A c \in CommandNames, s \in Selectors :
                        (~InVariant(pd, c, key) /\ ~InTarget(pd, s, key))
                            => Resolve(pd2, c, s, key) = value
              /\ \A v \in SetVariants :
                    pd2 = set_with_variant(pd, P, v, key, value) =>
                        \A c \in CommandNames, s \in Selectors :
                            IF c = v
                            THEN ~InTarget(pd, s, key) => Resolve(pd2, c, s, key) = value
                            ELSE Resolve(pd2, c, s, key) = Resolve(pd, c, s, key)
              /\ \A t \in SetTargets \ {None} :
                    pd2 = set_with_target(pd, P, t, key, value) =>
                        \A c \in CommandNames, s \in Selectors :
                            IF s = t
                            THEN Resolve(pd2, c, s, key) = value
                            ELSE Resolve(pd2, c, s, key) = Resolve(pd, c, s, key)
    ]_vars

\* after three writes: release True in the defaults, False in
\* variants[build], True in targets['--bin bin1']; build resolves True for
\* that selector and False for the others, clippy resolves True
C3_Witness ==
    /\ nwrites = 3
    /\ get_with_target(settings.project_data, Str(P1Dir), None, "release", None) = Bool(TRUE)
    /\ get_with_variant(settings.project_data, Str(P1Dir), Str(<<"build">>), "release", None)
         = Bool(FALSE)
    /\ get_with_target(settings.project_data, Str(P1Dir), T_bin1, "release", None) = Bool(TRUE)
    /\ Resolve(settings.project_data, Str(<<"build">>), T_bin1, "release") = Bool(TRUE)
    /\ Resolve(settings.project_data, Str(<<"build">>), T_lib, "release") = Bool(FALSE)
    /\ Resolve(settings.project_data, Str(<<"build">>), None, "release") = Bool(FALSE)
    /\ Resolve(settings.project_data, Str(<<"clippy">>), T_bin1, "release") = Bool(TRUE)
    /\ Resolve(settings.project_data, Str(<<"clippy">>), None, "release") = Bool(TRUE)

\* C10 as stated: with a non-null resolved toolchain the vector starts
\* cargo, '+<toolchain>', subcommand; with a null one it starts cargo,
\* subcommand.
C10_NonNullToolchainPrefixed ==
    (lastCmd.called /\ lastCmd.result # None) =>
        LET tc == HighestLayerValue(CallLayers(lastCmd), "toolchain", None)
            argv == lastCmd.result.l
        IN  /\ argv[1] = <<"cargo">>
            /\ IF tc # None
               THEN argv[2] = <<"+">> \o tc.s /\ argv[3] = lastCmd.cmd_info.command.s
               ELSE argv[2] = lastCmd.cmd_info.command.s

\* C10, amended: with a resolved toolchain that is neither null nor the empty
\* string the vector starts cargo, '+<toolchain>', subcommand; with a null or
\* empty one it starts cargo, subcommand.
C10_ToolchainPrefix ==
    (lastCmd.called /\ lastCmd.result # None) =>
        LET tc == HighestLayerValue(CallLayers(lastCmd), "toolchain", None)
            argv == lastCmd.result.l
        IN  /\ argv[1] = <<"cargo">>
            /\ IF tc # None /\ tc # Str(<<>>)
               THEN argv[2] = <<"+">> \o tc.s /\ argv[3] = lastCmd.cmd_info.command.s
               ELSE argv[2] = lastCmd.cmd_info.command.s

\* calls with a toolchain stored in the target layer, and with an empty one
C10_Witness ==
    /\ lastCmd.called
    /\ lastCmd.result # None
    /\ HighestLayerValue(CallLayers(lastCmd), "toolchain", None) = Nightly
    /\ "toolchain" \in DOMAIN CallLayers(lastCmd)[2]
    /\ lastCmd.result.l[2] = <<"+", "nightly">>
    /\ lastCmd.result.l[3] = <<"build">>

----------------------------------------------------------------------------
(* The question sequence *)

SeqSet(l) == {l[i] : i \in 1..Len(l)}

\* settings.load() succeeded in the object's current run
LoadOk(f) == f.pc \notin {"new", "noload"}

\* C4: when the user dismisses a prompt of a question sequence (the quick
\* panel's callback with index -1, or the input panel cancelled), done is
\* not invoked in that run, no further question is asked, and the project
\* store holds the tree it held when the run started.
C4_CancelAborts ==
    [][\A cls \in DOMAIN flows :
          flows'[cls].dismissed =>
             /\ flows'[cls].done_calls = 0
             /\ flows'[cls].writes = 0
             /\ store' = flows'[cls].store_at_run
             /\ flows'[cls].prompt = NoPrompt
             /\ flows'[cls].visited = flows[cls].visited
             /\ flows'[cls].prompted = flows[cls].prompted
             /\ flows'[cls].choices = flows[cls].choices]_vars

\* a quick panel dismissed at the second prompt of a run, after an earlier
\* run has written to the store
C4_Witness ==
    \E cls \in DOMAIN flows :
        /\ flows[cls].dismissed
        /\ Len(flows[cls].prompted) >= 2
        /\ store # None

\* the run has loaded its settings and has no prompt left unanswered
Answered(f) == LoadOk(f) /\ f.pc # "asking" /\ ~f.dismissed

\* done was invoked once, after every question of the sequence was reached
\* and had its choice recorded
DoneProper(f) ==
    /\ f.done_calls = 1
    /\ f.visited = f._sequence
    /\ \A q \in SeqSet(f._sequence) : q \in DOMAIN f.choices

\* the setters are called from done only
SettersInDone(f) ==
    /\ f.done_calls <= 1
    /\ f.done_calls = 0 => f.writes = 0 /\ store = f.store_at_run

C6_InputBypassesPrompt ==
    \A cls \in DOMAIN flows :
        LET f == flows[cls]
        IN  LoadOk(f) =>
               \A i \in 1..Len(f.visited) :
                  LET q == f.visited[i]
                  IN  q \in DOMAIN f.input /\ f.infos[i].ok =>
                         /\ q \notin SeqSet(f.prompted)
                         /\ q \in DOMAIN f.choices
                         /\ f.choices[q] = f.input[q]

\* a run that ended in done with a supplied target that the list of targets
\* does not contain
C6_Witness ==
    \E cls \in DOMAIN flows :
        LET f == flows[cls]
        IN  /\ f.pc = "done"
            /\ "target" \in DOMAIN f.input
            /\ \E i \in 1..Len(f.visited) :
                  /\ f.visited[i] = "target"
                  /\ \A j \in 1..Len(f.infos[i].info.items) :
                        f.infos[i].info.items[j][2] # f.input.target
            /\ f.choices.target = f.input.target

\* the item source gave exactly one entry, with skip_if_one true
SingleEntry(info) ==
    /\ "items" \in DOMAIN info
    /\ Len(info.items) = 1
    /\ "skip_if_one" \in DOMAIN info
    /\ info.skip_if_one = Bool(TRUE)

\* C7 as stated: a question whose item source yields exactly one entry with
\* skip_if_one true is never prompted and records that entry's value.
C7_SkipIfOne ==
    \A cls \in DOMAIN flows :
        LET f == flows[cls]
        IN  LoadOk(f) =>
               \A i \in 1..Len(f.visited) :
                  LET q == f.visited[i]
                  IN  f.infos[i].ok /\ SingleEntry(f.infos[i].info) =>
                         /\ q \notin SeqSet(f.prompted)
                         /\ q \in DOMAIN f.choices
                         /\ f.choices[q] = f.infos[i].info.items[1][2]

\* C7: a question whose name is not a key of the pre-supplied input and
\* whose item source yields exactly one entry with skip_if_one true is never
\* prompted and records that entry's value.
C7_SkipIfOneWithoutInput ==
    \A cls \in DOMAIN flows :
        LET f == flows[cls]
        IN  LoadOk(f) =>
               \A i \in 1..Len(f.visited) :
                  LET q == f.visited[i]
                  IN  /\ f.infos[i].ok
                      /\ SingleEntry(f.infos[i].info)
                      /\ q \notin DOMAIN f.input
                      =>
                         /\ q \notin SeqSet(f.prompted)
                         /\ q \in DOMAIN f.choices
                         /\ f.choices[q] = f.infos[i].info.items[1][2]

\* an interactive run in which the package question, with its single entry,
\* was passed without a panel and later questions were prompted
C7_Witness ==
    \E cls \in DOMAIN flows :
        LET f == flows[cls]
        IN  /\ f.input = EmptyDict
            /\ f.pc = "done"
            /\ \E i \in 1..Len(f.visited) :
                  f.visited[i] = "package" /\ SingleEntry(f.infos[i].info)
            /\ "package" \notin SeqSet(f.prompted)
            /\ f.choices.package = Str(P1Dir)
            /\ Len(f.prompted) >= 2

\* the item source gave a default that is the value of none of its entries
DefaultUnlisted(info) ==
    /\ "items" \in DOMAIN info
    /\ "default" \in DOMAIN info
    /\ \A i \in 1..Len(info.items) : info.items[i][2] # info.default

\* the quick panel of f is open for a question with an unlisted default
AsksWithUnlistedDefault(f) ==
    /\ f.pc = "asking"
    /\ f.prompt.kind = "list"
    /\ DefaultUnlisted(f.infos[Len(f.infos)].info)

\* C8: whenever a quick panel is presented for a question whose item source
\* gives a default that is the value of no entry, the list presented has an
\* entry whose value is that default; selecting it records the default as the
\* choice of the question and the sequence goes on (to the next question, or
\* to done).
C8_DefaultInjected ==
    [][\A cls \in DOMAIN flows :
          /\ AsksWithUnlistedDefault(flows'[cls]) =>
                \E j \in 1..Len(flows'[cls].prompt.items) :
                   flows'[cls].prompt.items[j][2] =
                      flows'[cls].infos[Len(flows'[cls].infos)].info.default
          /\ LET f == flows[cls]
                 q == f.prompt.q
                 default == f.infos[Len(f.infos)].info.default
             IN  /\ AsksWithUnlistedDefault(f)
                 /\ runs' = runs
                 /\ ~flows'[cls].dismissed
                 /\ q \in DOMAIN recent' /\ recent'[q] = default
                 => /\ q \in DOMAIN flows'[cls].choices
                    /\ flows'[cls].choices[q] = default
                    /\ \/ flows'[cls].sequence_index = f.sequence_index + 1
                       \/ flows'[cls].done_calls = 1]_vars

\* an interactive run that ended in done with the target an earlier run
\* stored, which the list of targets does not contain
C8_Witness ==
    \E cls \in DOMAIN flows :
        LET f == flows[cls]
        IN  /\ f.pc = "done"
            /\ f.input = EmptyDict
            /\ "target" \in SeqSet(f.prompted)
            /\ \E i \in 1..Len(f.visited) :
                  /\ f.visited[i] = "target"
                  /\ DefaultUnlisted(f.infos[i].info)
                  /\ f.choices.target = f.infos[i].info.default

\* the sequence of the class with the names the hooks of the questions
\* answered so far returned, each list after what was there
RECURSIVE ExpectedSequence(_, _, _)
ExpectedSequence(f, i, acc) ==
    IF i > Len(f.visited) THEN acc
    ELSE LET q == f.visited[i]
             hook == IF q \in DOMAIN f.choices THEN Selected(f.cls, q, f.choices[q])
                     ELSE [ok |-> TRUE, next |-> <<>>]
         IN  ExpectedSequence(f, i + 1, IF hook.ok THEN acc \o hook.next ELSE acc)

\* C9: the names a selected-hook returns go after all the questions of the
\* sequence, the questions are asked in the order of the resulting sequence,
\* and without names returned by a hook the sequence stays as it is.
C9_HookAppendsInOrder ==
    \A cls \in DOMAIN flows :
        LET f == flows[cls]
        IN  LoadOk(f) =>
               /\ f.visited = SubSeq(f._sequence, 1, f.sequence_index)
               /\ f._sequence = ExpectedSequence(f, 1, sequence(cls))

\* a run whose hook added three questions, all asked in order after the
\* first, ended in done
C9_Witness ==
    \E cls \in DOMAIN flows :
        LET f == flows[cls]
        IN  /\ f.pc = "done"
            /\ f._sequence = <<"which", "package", "target", "toolchain">>
            /\ f.visited = f._sequence
            /\ f.prompted = <<"which", "target", "toolchain">>

----------------------------------------------------------------------------
(* The command vector and the stored settings *)

\* the tokens toks stand right after the subcommand, which follows 'cargo'
\* and the optional '+toolchain'
TokensAfterSubcommand(argv, command, toks) ==
    \E k \in {2, 3} :
        /\ Len(argv) >= k + Len(toks)
        /\ argv[1] = <<"cargo">>
        /\ k = 3 => Head(argv[2]) = "+"
        /\ argv[k] = command.s
        /\ SubSeq(argv, k + 1, k + Len(toks)) = toks

\* lastCmd is a get_command call for the command and package of the last
\* run of the set-target flow, made on the tree that run stored, without a
\* one-shot target
CallAfterSetTarget ==
    LET f == flows["CargoSetTarget"]
    IN  /\ f.pc = "done"
        /\ f.writes = 1
        /\ store = f.settings.project_data
        /\ lastCmd.called
        /\ lastCmd.project_data = store
        /\ lastCmd.manifest_dir = f.choices.package
        /\ lastCmd.cmd_info.command = f.choices.variant
        /\ "target" \notin DOMAIN lastCmd.initial_settings

\* C11: after the set-target flow stored a target selector S (a selector
\* proper, not the sentinel 'auto') for a command, a get_command call for
\* that command made on the stored tree without a one-shot target returns a
\* vector where the whitespace-split tokens of S stand right after the
\* subcommand token, which follows 'cargo' and the optional '+toolchain'.
C11_TargetRoundTrip ==
    (CallAfterSetTarget /\ flows["CargoSetTarget"].choices.target # Auto) =>
        LET S == flows["CargoSetTarget"].choices.target
        IN  /\ lastCmd.result # None
            /\ TokensAfterSubcommand(lastCmd.result.l, lastCmd.cmd_info.command,
                                     Split(S.s))

\* build asked for after '--bin bin1' was stored for it, with a toolchain
\* stored as well: ['cargo', '+nightly', 'build', '--bin', 'bin1', ...]
C11_Witness ==
    /\ CallAfterSetTarget
    /\ flows["CargoSetTarget"].choices.target = T_bin1
    /\ Len(lastCmd.result.l) >= 5
    /\ SubSeq(lastCmd.result.l, 1, 5)
         = << <<"cargo">>, <<"+", "nightly">>, <<"build">>, <<"--bin">>, <<"bin1">> >>

\* the value configured as target of the recorded call: the one-shot
\* override, else variants[command].target, else None
ConfiguredTarget(c) ==
    HighestLayerValue(
        << c.initial_settings,
           DictGet(DictGet(PathData(c.project_data, c.manifest_dir),
                           "variants", EmptyDict),
                   c.cmd_info.command, EmptyDict) >>,
        "target", None)

\* the flags a target selector starts with
TargetFlags == {<<"--lib">>, <<"--bin">>, <<"--example">>, <<"--test">>, <<"--bench">>}

NoTargetTokens(argv) == \A i \in 1..Len(argv) : argv[i] \notin TargetFlags

\* C12: in a get_command call for a command that takes a target and whose
\* configured target is 'auto', the vector has the tokens of the detected
\* candidate right after the subcommand when detection for the active file
\* gives exactly one candidate, and no target token when it gives none or
\* more than one; no vector get_command returns has the token 'auto'.
C12_AutoTarget ==
    (lastCmd.called /\ lastCmd.result # None) =>
        LET argv == lastCmd.result.l
            cands == lastCmd.view.targets
        IN  /\ ~HasToken(argv, <<"auto">>)
            /\ (/\ Truthy(DictGet(lastCmd.cmd_info, "allows_target", Bool(FALSE)))
                /\ ConfiguredTarget(lastCmd) = Auto)
               => IF Len(cands) = 1
                  THEN TokensAfterSubcommand(argv, lastCmd.cmd_info.command, cands[1])
                  ELSE NoTargetTokens(argv)

\* build asked for with bin1.rs active after the set-target flow stored
\* 'auto' for it: the one candidate '--bin bin1' is in the vector
C12_Witness ==
    /\ lastCmd.called
    /\ lastCmd.initial_settings = EmptyDict
    /\ ConfiguredTarget(lastCmd) = Auto
    /\ lastCmd.view = ViewBin1
    /\ lastCmd.result = List(<< <<"cargo">>, <<"build">>, <<"--bin">>, <<"bin1">>,
                                <<"--message-format=json">> >>)

\* the value the layers of the recorded call give for key
CallResolved(c, key) == HighestLayerValue(CallLayers(c), key, BuiltinDefault(key))

\* tok is in argv, and each time it is followed by arg
HasFlagWith(argv, tok, arg) ==
    /\ HasToken(argv, tok)
    /\ \A i \in 1..Len(argv) : argv[i] = tok => (i < Len(argv) /\ argv[i + 1] = arg)

\* C13: the vector of a get_command call has '--target <triple>' exactly
\* when the command has allows_target_triple and the target_triple resolved
\* through the layers is truthy, and '--release' exactly when it has
\* allows_release and the resolved release is truthy; bench never gets
\* '--release', script and clean get neither flag.
C13_CapabilityGating ==
    (lastCmd.called /\ lastCmd.result # None) =>
        LET argv == lastCmd.result.l
            info == lastCmd.cmd_info
            triple == CallResolved(lastCmd, "target_triple")
            release == CallResolved(lastCmd, "release")
        IN  /\ HasToken(argv, <<"--target">>)
                <=> (/\ Truthy(DictGet(info, "allows_target_triple", Bool(FALSE)))
                     /\ Truthy(triple))
            /\ HasToken(argv, <<"--target">>) => HasFlagWith(argv, <<"--target">>, triple.s)
            /\ HasToken(argv, <<"--release">>)
                <=> (/\ Truthy(DictGet(info, "allows_release", Bool(FALSE)))
                     /\ Truthy(release))
            /\ lastCmd.cmd = "bench" => ~HasToken(argv, <<"--release">>)
            /\ lastCmd.cmd \in {"script", "clean"}
                  => ~HasToken(argv, <<"--release">>) /\ ~HasToken(argv, <<"--target">>)

\* bench asked for with release and target_triple both set one-shot: the
\* triple is in the vector, '--release' is not
C13_Witness ==
    /\ lastCmd.called
    /\ lastCmd.cmd = "bench"
    /\ Truthy(CallResolved(lastCmd, "release"))
    /\ lastCmd.result = List(<< <<"cargo">>, <<"bench">>, <<"--target">>, <<"a-b-c">>,
                                <<"--message-format=json">> >>)

\* the layers of the recorded call are all empty
NothingStored(c) ==
    LET pdata == PathData(c.project_data, c.manifest_dir)
    IN  /\ DictGet(pdata, "defaults", EmptyDict) = EmptyDict
        /\ DictGet(DictGet(pdata, "variants", EmptyDict), c.cmd_info.command, EmptyDict)
             = EmptyDict
        /\ DictGet(pdata, "targets", EmptyDict) = EmptyDict

\* the call of the end-to-end example: build, nothing stored, the one-shot
\* overrides {target: '--bin bin1'}
ExampleCall ==
    /\ lastCmd.called
    /\ lastCmd.cmd = "build"
    /\ NothingStored(lastCmd)
    /\ lastCmd.initial_settings = [target |-> T_bin1]

\* C14 as stated, in the particular case it names: with nothing stored and
\* the overrides {target: '--bin bin1'}, build resolves to exactly
\* ['cargo', 'build', '--bin', 'bin1'], without the json flag, no layer
\* holding a truthy value for it.
C14_JsonNeedsResolvedValue ==
    ExampleCall =>
        lastCmd.result = List(<< <<"cargo">>, <<"build">>, <<"--bin">>, <<"bin1">> >>)

\* C14: the vector of a get_command call has '--message-format=json', once,
\* exactly when the command has a truthy allows_json, whatever the layers
\* and the overrides hold; with nothing stored and the overrides
\* {target: '--bin bin1'}, build resolves to exactly
\* ['cargo', 'build', '--bin', 'bin1', '--message-format=json'].
C14_JsonIffAllowed ==
    (lastCmd.called /\ lastCmd.result # None) =>
        LET argv == lastCmd.result.l
        IN  /\ HasToken(argv, <<"--message-format=json">>)
                <=> Truthy(DictGet(lastCmd.cmd_info, "allows_json", None))
            /\ Cardinality({i \in 1..Len(argv) : argv[i] = <<"--message-format=json">>}) <= 1
            /\ ExampleCall =>
                  argv = << <<"cargo">>, <<"build">>, <<"--bin">>, <<"bin1">>,
                            <<"--message-format=json">> >>

\* the call of the example, made: the vector it returned ends with the json flag
C14_Witness ==
    /\ ExampleCall
    /\ lastCmd.project_data = EmptyDict
    /\ lastCmd.result.l[Len(lastCmd.result.l)] = <<"--message-format=json">>

\* lastCmd is a get_command call without a one-shot toolchain, made on the
\* tree of the window after the last run of the toolchain flow stored its
\* answer, for the package of that run
CallAfterSetToolchain ==
    LET f == flows["CargoSetToolchain"]
    IN  /\ f.pc = "done"
        /\ f.writes = 1
        /\ lastCmd.called
        /\ lastCmd.project_data = store
        /\ lastCmd.manifest_dir = f.choices.package
        /\ lastCmd.result # None
        /\ "toolchain" \notin DOMAIN lastCmd.initial_settings

\* the recorded call is in the scope the toolchain flow wrote to
InToolchainScope(f, c) ==
    IF f.choices.which = Str(<<"variant">>)
    THEN c.cmd_info.command = f.choices.variant
    ELSE CallTarget(c) = f.choices.target

\* C15: a toolchain the toolchain flow wrote at a scope is applied by the
\* get_command calls that follow exactly in that scope.  A call in the scope
\* (the variant's command, or the target in effect) has '+<toolchain>' after
\* 'cargo' when the value written is truthy and no '+' token when it is
\* null, unless the target layer, which is above the variant layer, holds a
\* toolchain of its own; when that write is the only one made, a call
\* outside the scope has no '+' token, and after which=variant,
\* variant=build, toolchain=nightly, build resolves to exactly
\* ['cargo', '+nightly', 'build', '--message-format=json'].
C15_ToolchainScope ==
    CallAfterSetToolchain =>
        LET f == flows["CargoSetToolchain"]
            v == f.choices.toolchain
            argv == lastCmd.result.l
            higher == /\ f.choices.which = Str(<<"variant">>)
                      /\ "toolchain" \in DOMAIN CallLayers(lastCmd)[2]
        IN  /\ (InToolchainScope(f, lastCmd) /\ ~higher) =>
                  IF Truthy(v) THEN argv[2] = <<"+">> \o v.s
                  ELSE Head(argv[2]) # "+"
            /\ (~InToolchainScope(f, lastCmd) /\ nwrites = 1) => Head(argv[2]) # "+"
            /\ (/\ nwrites = 1
                /\ f.choices.which = Str(<<"variant">>)
                /\ f.choices.variant = Str(<<"build">>)
                /\ v = Nightly
                /\ lastCmd.cmd = "build"
                /\ lastCmd.initial_settings = EmptyDict)
               => argv = << <<"cargo">>, <<"+", "nightly">>, <<"build">>,
                            <<"--message-format=json">> >>

\* nightly was set for the target '--bin bin1', then '--bin bin1' was made
\* the target of build: build resolves with '+nightly'
C15_Witness ==
    /\ CallAfterSetToolchain
    /\ flows["CargoSetToolchain"].choices.which = Str(<<"target">>)
    /\ flows["CargoSetToolchain"].choices.target = T_bin1
    /\ flows["CargoSetTarget"].pc = "done"
    /\ store = flows["CargoSetTarget"].settings.project_data
    /\ lastCmd.initial_settings = EmptyDict
    /\ lastCmd.result = List(<< <<"cargo">>, <<"+", "nightly">>, <<"build">>, <<"--bin">>,
                                <<"bin1">>, <<"--message-format=json">> >>)

\* the tokens of an extra-arguments value, none when it is falsy
ArgTokens(v, view) == IF Truthy(v) THEN shlex_split(expand(v.s, view)) ELSE <<>>

\* C17: when the extra_run_args a get_command call resolves is non-empty,
\* the vector ends with '--' followed by its tokens, also when
\* extra_cargo_args is empty, and that is the only '--'; when it is empty or
\* unset the vector has no '--'.  The tokens of extra_cargo_args stand right
\* before the separator (at the end of the vector when there is none).
C17_RunArgsSeparator ==
    (lastCmd.called /\ lastCmd.result # None) =>
        LET argv == lastCmd.result.l
            n == Len(argv)
            run_args == CallResolved(lastCmd, "extra_run_args")
            ratoks == ArgTokens(run_args, lastCmd.view)
            catoks == ArgTokens(CallResolved(lastCmd, "extra_cargo_args"), lastCmd.view)
            seps == {i \in 1..n : argv[i] = <<"--">>}
        IN  IF Truthy(run_args)
            THEN /\ n > Len(ratoks) + Len(catoks)
                 /\ SubSeq(argv, n - Len(ratoks) + 1, n) = ratoks
                 /\ seps = {n - Len(ratoks)}
                 /\ SubSeq(argv, n - Len(ratoks) - Len(catoks), n - Len(ratoks) - 1) = catoks
            ELSE /\ seps = {}
                 /\ n >= Len(catoks)
                 /\ SubSeq(argv, n - Len(catoks) + 1, n) = catoks

\* build asked for with extra_run_args only: the separator is there though
\* there are no extra cargo arguments
C17_Witness ==
    /\ lastCmd.called
    /\ lastCmd.initial_settings = [extra_run_args |-> RunArgs]
    /\ ~Truthy(CallResolved(lastCmd, "extra_cargo_args"))
    /\ lastCmd.result = List(<< <<"cargo">>, <<"build">>, <<"--message-format=json">>,
                                <<"--">>, <<"this">>, <<"test">> >>)

----------------------------------------------------------------------------
(* The setters and the getters *)

\* a default no settings key is given as value
Missing == Str(<<"missing">>)

\* the step is the call set_with_target(p, t, k, v), resp.
\* set_with_variant(p, c, k, v), on `settings`
IsSetWithTarget(p, t, k, v) ==
    /\ nwrites' # nwrites
    /\ settings'.project_data = set_with_target(settings.project_data, p, t, k, v)
IsSetWithVariant(p, c, k, v) ==
    /\ nwrites' # nwrites
    /\ settings'.project_data = set_with_variant(settings.project_data, p, c, k, v)

\* C18: every setter call on a loaded CargoSettings object, whatever tree
\* it holds (the empty one included), writes the store once, with the tree
\* the object holds after the call, and the matching getter then returns the
\* value set: get_with_target(p, t, k) after set_with_target(p, t, k, v),
\* get_with_variant(p, c, k) after set_with_variant(p, c, k, v).
C18_SetterRoundTrip ==
    [][nwrites' # nwrites =>
        /\ nwrites' = nwrites + 1
        /\ store' = settings'.project_data
        /\ \/ \E t \in SetTargets, k \in LayerKeys : \E v \in ValuesOf(k) :
                 IsSetWithTarget(Str(P1Dir), t, k, v)
           \/ \E c \in SetVariants, k \in LayerKeys : \E v \in ValuesOf(k) :
                 IsSetWithVariant(Str(P1Dir), c, k, v)
        /\ \A t \in SetTargets, k \in LayerKeys : \A v \in ValuesOf(k) :
              IsSetWithTarget(Str(P1Dir), t, k, v) =>
                 get_with_target(settings'.project_data, Str(P1Dir), t, k, Missing) = v
        /\ \A c \in SetVariants, k \in LayerKeys : \A v \in ValuesOf(k) :
              IsSetWithVariant(Str(P1Dir), c, k, v) =>
                 get_with_variant(settings'.project_data, Str(P1Dir), c, k, Missing) = v
    ]_vars

\* the first write of a window without project data, made by
\* set_with_variant(p, 'build', 'target', '--bin bin1') on the empty tree:
\* the store is the tree of the object and the getter returns the selector
C18_Witness ==
    /\ nwrites = 1
    /\ store = settings.project_data
    /\ store = set_with_variant(EmptyDict, Str(P1Dir), Str(<<"build">>), "target", T_bin1)
    /\ get_with_variant(store, Str(P1Dir), Str(<<"build">>), "target", Missing) = T_bin1

\* the layer the recorded getter call reads
GetLayer(g) ==
    IF g.getter = "get_with_variant" THEN "variants"
    ELSE IF Truthy(g.scope) THEN "targets" ELSE "defaults"

\* the tree pd has every map down to the entry the recorded getter call
\* reads, and that entry has the key
EntryStored(pd, g) ==
    /\ "settings" \in DOMAIN pd
    /\ "cargo_build" \in DOMAIN pd["settings"]
    /\ "paths" \in DOMAIN pd["settings"]["cargo_build"]
    /\ g.path \in DOMAIN pd["settings"]["cargo_build"]["paths"]
    /\ LET pdata == pd["settings"]["cargo_build"]["paths"][g.path]
       IN  /\ GetLayer(g) \in DOMAIN pdata
           /\ IF GetLayer(g) = "defaults"
              THEN g.key \in DOMAIN pdata["defaults"]
              ELSE /\ g.scope \in DOMAIN pdata[GetLayer(g)]
                   /\ g.key \in DOMAIN pdata[GetLayer(g)][g.scope]

\* the value stored at the entry the recorded getter call reads
EntryValue(pd, g) ==
    LET pdata == pd["settings"]["cargo_build"]["paths"][g.path]
    IN  IF GetLayer(g) = "defaults" THEN pdata["defaults"][g.key]
        ELSE pdata[GetLayer(g)][g.scope][g.key]

\* C19: a call of get_with_target, get_with_variant or get_command leaves
\* the tree of the CargoSettings object as it was (no missing map is
\* created) and does not write the store; a getter whose path, layer,
\* selector or variant, or key is not in the tree returns the default the
\* caller gave, and the stored value otherwise.
C19_ReadsArePure ==
    [][(\/ (lastGet' # lastGet /\ lastGet'.called)
        \/ (lastCmd' # lastCmd /\ lastCmd'.called)) =>
        /\ settings'.project_data = settings.project_data
        /\ store' = store
        /\ nwrites' = nwrites
        /\ (lastGet' # lastGet) =>
              lastGet'.value = IF EntryStored(settings.project_data, lastGet')
                               THEN EntryValue(settings.project_data, lastGet')
                               ELSE lastGet'.default
    ]_vars

\* get_with_target asked for a package the tree has no entry for, on a tree
\* that has settings of another package: the default came back, the tree and
\* the store are as before
C19_Witness ==
    /\ lastGet.called
    /\ lastGet.getter = "get_with_target"
    /\ lastGet.path = P2
    /\ lastGet.default = Str(<<"stable">>)
    /\ lastGet.value = Str(<<"stable">>)
    /\ nwrites > 0
    /\ settings.project_data = store
    /\ lastGet.project_data = store
    /\ ~EntryStored(store, lastGet)

----------------------------------------------------------------------------
(* The Cargo Exec thread *)

\* C16: when the thread runs a command that wants the path of the view
\* (script) and the active file is not a Rust file, get_command returns
\* None, not a vector, and the thread does nothing more: it does not clear
\* the messages and starts no process.  When the active file is a Rust
\* file, the vector has its path after the subcommand and the thread starts
\* the process with that vector.
C16_ScriptNeedsRustView ==
    (/\ thread.ran
     /\ thread.loaded
     /\ Truthy(DictGet(thread.cmd_info, "wants_view_path", Bool(FALSE)))) =>
        IF ~thread.view.rust
        THEN /\ thread.result = None
             /\ ~thread.cleared
             /\ thread.started = None
        ELSE /\ thread.result # None
             /\ \E i \in 3..Len(thread.result.l) :
                   /\ thread.result.l[i] = thread.view.file_name
                   /\ thread.result.l[i - 1] = <<"script">>
             /\ thread.cleared
             /\ thread.started = thread.result

\* script run from the window with Cargo.toml active: settings loaded, no
\* vector, nothing cleared, nothing started
C16_Witness ==
    /\ thread.ran
    /\ thread.loaded
    /\ thread.cmd_info = CARGO_COMMANDS["script"]
    /\ thread.view = ViewToml
    /\ thread.result = None
    /\ ~thread.cleared
    /\ thread.started = None

\* no directory from that of the view's file up to the root has a manifest
NoManifestFor(view) ==
    \A d \in ManifestDirs :
        ~(/\ Len(d) <= Len(view.file_name)
          /\ SubSeq(view.file_name, 1, Len(d)) = d)

\* C20: a run of a cargo_set_* command whose load finds no manifest asks no
\* question, does not invoke done, and leaves the store unwritten; a Cargo
\* Exec thread whose load finds no manifest gets no vector from get_command,
\* does not clear the messages and starts no process.
C20_NoManifestAborts ==
    [][/\ \A cls \in DOMAIN flows :
            (flows'[cls] # flows[cls] /\ flows'[cls].settings.manifest_dir = None) =>
                /\ flows'[cls].visited = <<>>
                /\ flows'[cls].prompted = <<>>
                /\ flows'[cls].prompt = NoPrompt
                /\ flows'[cls].choices = flows[cls].choices
                /\ flows'[cls].done_calls = 0
                /\ flows'[cls].writes = 0
                /\ store' = store
                /\ nwrites' = nwrites
       /\ (thread' # thread /\ thread'.ran /\ NoManifestFor(thread'.view)) =>
                /\ ~thread'.loaded
                /\ thread'.result = None
                /\ ~thread'.cleared
                /\ thread'.started = None
                /\ store' = store
                /\ nwrites' = nwrites
    ]_vars

\* the toolchain flow was run, and then build was run, with a file outside
\* every package active, in a window that has settings stored: neither did
\* anything
C20_Witness ==
    /\ flows["CargoSetToolchain"].pc = "noload"
    /\ flows["CargoSetToolchain"].input # EmptyDict
    /\ flows["CargoSetToolchain"].done_calls = 0
    /\ nwrites > 0
    /\ store = flows["CargoSetToolchain"].store_at_run
    /\ thread.ran
    /\ thread.view = ViewStray
    /\ ~thread.loaded
    /\ thread.started = None

----------------------------------------------------------------------------
(* RECENT_CHOICES and the pre-selected entry *)

\* RECENT_CHOICES[q] is not the same before and after the step
RecentChanged(q) ==
    IF q \in DOMAIN recent'
    THEN q \notin DOMAIN recent \/ recent'[q] # recent[q]
    ELSE q \in DOMAIN recent

\* the values of the entries of a list
ItemValues(items) == {items[i][2] : i \in 1..Len(items)}

\* in the run recorded in g, question q had a list as item source
ListQuestion(g, q) ==
    \E i \in 1..Len(g.visited) :
        /\ i <= Len(g.infos)
        /\ g.visited[i] = q
        /\ g.infos[i].ok
        /\ "items" \in DOMAIN g.infos[i].info

\* in the run recorded in g, question q had a list of one entry with
\* skip_if_one as item source
SingleSkipQuestion(g, q) ==
    \E i \in 1..Len(g.visited) :
        /\ i <= Len(g.infos)
        /\ g.visited[i] = q
        /\ g.infos[i].ok
        /\ "items" \in DOMAIN g.infos[i].info
        /\ SkipsPrompt(g.infos[i].info)

\* C21 as stated: RECENT_CHOICES[q] changes only in a step in which the user
\* picks an entry of the quick panel shown for q, and becomes the value of
\* an entry of that panel.
C21_RecentOnlyWhenPicked ==
    [][\A q \in DOMAIN recent' :
          RecentChanged(q) =>
              \E cls \in DOMAIN flows :
                  /\ runs' = runs
                  /\ flows[cls].prompt.kind = "list"
                  /\ flows[cls].prompt.q = q
                  /\ recent'[q] \in ItemValues(flows[cls].prompt.items)
    ]_vars

\* C21: RECENT_CHOICES[q] is set to the value chosen when the user picks an
\* entry of the quick panel shown for q and when the single entry of a
\* skip_if_one list is taken for q without a panel, and in no other case:
\* an answer taken from the input of the run or typed in an input panel
\* leaves RECENT_CHOICES as it is; no entry is ever removed.
C21_RecentOnlyFromLists ==
    [][/\ DOMAIN recent \subseteq DOMAIN recent'
       /\ \A cls \in DOMAIN flows :
            flows'[cls] # flows[cls] =>
                LET f == flows[cls]
                    g == flows'[cls]
                    picked(q) == runs' = runs /\ f.prompt.kind = "list" /\ f.prompt.q = q
                IN  /\ \A q \in DOMAIN recent' :
                          RecentChanged(q) =>
                              /\ q \notin DOMAIN g.input
                              /\ q \in DOMAIN g.choices
                              /\ recent'[q] = g.choices[q]
                              /\ ListQuestion(g, q)
                              /\ picked(q) \/ SingleSkipQuestion(g, q)
                    /\ (runs' = runs /\ f.prompt.kind = "list" /\ g.pc # "cancelled") =>
                          /\ f.prompt.q \in DOMAIN recent'
                          /\ recent'[f.prompt.q] = g.choices[f.prompt.q]
                          /\ recent'[f.prompt.q] \in ItemValues(f.prompt.items)
                    /\ (runs' = runs /\ f.prompt.kind = "text") => ~RecentChanged(f.prompt.q)
       /\ (\A cls \in DOMAIN flows : flows'[cls] = flows[cls]) => recent' = recent
    ]_vars

\* a run of the features flow in which no_default_features was picked in
\* the quick panel and the features came from the input: RECENT_CHOICES has
\* the value picked, and nothing for features
C21_Witness ==
    /\ "CargoSetFeatures" \in DOMAIN flows
    /\ LET g == flows["CargoSetFeatures"]
       IN  /\ g.pc = "done"
           /\ "no_default_features" \in SeqSet(g.prompted)
           /\ "no_default_features" \in DOMAIN recent
           /\ recent["no_default_features"] = g.choices["no_default_features"]
           /\ "features" \in DOMAIN g.input
           /\ g.choices["features"] = g.input["features"]
           /\ "features" \notin DOMAIN recent

\* the index (from 0) of the first entry of items whose value is v, -1
\* when no entry has it
FirstIndexOfValue(items, v) ==
    IF v \in ItemValues(items)
    THEN (CHOOSE i \in 1..Len(items) :
             items[i][2] = v /\ \A j \in 1..(i - 1) : items[j][2] # v) - 1
    ELSE -1

\* C22: the index a quick panel is given as pre-selected is that of the
\* entry whose value is the default of the item source when the item source
\* gives one, and then it is an index of the list presented; without a
\* default it is that of the entry whose value is RECENT_CHOICES[q] when
\* there is such an entry, and -1 otherwise.
C22_PreselectedIndex ==
    \A cls \in DOMAIN flows :
        (flows[cls].pc = "asking" /\ flows[cls].prompt.kind = "list") =>
            LET f == flows[cls]
                info == f.infos[Len(f.infos)].info
                items == f.prompt.items
                q == f.prompt.q
            IN  IF "default" \in DOMAIN info
                THEN /\ f.prompt.selected_index = FirstIndexOfValue(items, info.default)
                     /\ f.prompt.selected_index \in 0..(Len(items) - 1)
                ELSE IF q \in DOMAIN recent /\ recent[q] \in ItemValues(items)
                THEN f.prompt.selected_index = FirstIndexOfValue(items, recent[q])
                ELSE f.prompt.selected_index = -1

\* a panel whose item source gives a default while RECENT_CHOICES holds
\* another value of the list for the question: the default's entry is the
\* one pre-selected
C22_Witness ==
    \E cls \in DOMAIN flows :
        /\ flows[cls].pc = "asking"
        /\ flows[cls].prompt.kind = "list"
        /\ LET f == flows[cls]
               info == f.infos[Len(f.infos)].info
           IN  /\ "default" \in DOMAIN info
               /\ f.prompt.q \in DOMAIN recent
               /\ recent[f.prompt.q] # info.default
               /\ recent[f.prompt.q] \in ItemValues(f.prompt.items)
               /\ f.prompt.selected_index = FirstIndexOfValue(f.prompt.items, info.default)


(***************************************************************************)
(* Two command objects on one project                                      *)
(***************************************************************************)
\* the tree the object loaded when its run began
Snapshot(g) == IF g.store_at_run = None THEN EmptyDict ELSE g.store_at_run

\* the key the object's done sets in the default layer
OwnKey(cls) == IF cls = "CargoSetProfile" THEN "release" ELSE "target_triple"

DefaultOf(project_data, key) ==
    get_with_target(project_data, Str(P1Dir), None, key, Missing)

\* the step is the done of cls
DoneStep(cls) ==
    /\ flows'[cls].pc = "done"
    /\ flows[cls].pc # "done"
    /\ runs' = runs
    /\ nwrites' > nwrites

\* C23: what a completing object stores is the tree it loaded when its run
\* began with its own key set, whatever the window holds by then: the key
\* another object stored in between is as it was in that snapshot, so it
\* is absent when the snapshot did not have it.
C23_LastDoneWins ==
    [][\A cls \in PairClasses : DoneStep(cls) =>
          /\ store' = flows'[cls].settings.project_data
          /\ \A other \in PairClasses \ {cls} :
                DefaultOf(store', OwnKey(other))
                    = DefaultOf(Snapshot(flows[cls]), OwnKey(other))]_vars

\* both objects loaded the empty project, the profile object completed
\* first, the triple object last: release is gone from the stored tree
C23_Witness ==
    /\ flows["CargoSetProfile"].pc = "done"
    /\ flows["CargoSetTriple"].pc = "done"
    /\ flows["CargoSetProfile"].store_at_run = None
    /\ flows["CargoSetTriple"].store_at_run = None
    /\ nwrites = 2
    /\ DefaultOf(flows["CargoSetProfile"].settings.project_data, "release") # Missing
    /\ store = flows["CargoSetTriple"].settings.project_data
    /\ DefaultOf(store, "target_triple") # Missing
    /\ DefaultOf(store, "release") = Missing

SameArguments(c, d) ==
    /\ c.manifest_dir = d.manifest_dir
    /\ c.cmd_info = d.cmd_info
    /\ c.initial_settings = d.initial_settings
    /\ c.project_data = d.project_data

\* what get_command reads of the window besides the settings: whether the
\* active view is a Rust source file, its file name, and the targets
\* TargetDetector finds for it
ViewRead(view) == <<view.rust, view.file_name, view.targets>>

BuildVector ==
    /\ thread # NoThread
    /\ thread.loaded
    /\ thread.manifest_dir = Str(P1Dir)
    /\ thread.cmd_info.command = Str(<<"build">>)
    /\ thread.result # None

\* no target layer of the package holds the key
NoTargetHolds(project_data, path, key) ==
    LET targets == DictGet(PathData(project_data, path), "targets", EmptyDict)
    IN  \A t \in DOMAIN targets : key \notin DOMAIN targets[t]

\* C26: once the profile command has completed with profile P for package p
\* and target t, the release stored at (p, t) is true exactly when P is
\* 'release'; and when all the completed profile commands had the null
\* target, the vector of build has '--release' exactly when the last of
\* them chose 'release': choosing 'dev' afterwards takes the flag away.
C26_ProfileRoundTrip ==
    LET f == flows["CargoSetProfile"]
    IN  f.pc = "done" =>
          /\ get_with_target(store, f.choices.package, f.choices.target,
                             "release", Missing)
                = Bool(f.choices.profile = Str(<<"release">>))
          /\ (/\ BuildVector
              /\ f.choices.target = None
              /\ NoTargetHolds(store, f.choices.package, "release")
              /\ "release" \notin DOMAIN thread.initial_settings)
                => (HasToken(thread.result.l, <<"--release">>)
                      <=> f.choices.profile = Str(<<"release">>))

\* 'release' was chosen and then 'dev', both for the null target: the build
\* that follows has no '--release'
C26_Witness ==
    LET f == flows["CargoSetProfile"]
    IN  /\ f.pc = "done"
        /\ nwrites = 2
        /\ f.choices.target = None
        /\ f.choices.profile = Str(<<"dev">>)
        /\ get_with_target(store, f.choices.package, None, "release", Missing)
             = Bool(FALSE)
        /\ BuildVector
        /\ ~HasToken(thread.result.l, <<"--release">>)


(***************************************************************************)
(* The target layer get_command consults                                   *)
(***************************************************************************)
\* the tree with only the entries `keep` left in the targets of the package
RestrictTargets(project_data, path, keep) ==
    IF "targets" \in DOMAIN PathData(project_data, path)
    THEN [project_data EXCEPT
            !["settings"]["cargo_build"]["paths"][path]["targets"] =
                [t \in (DOMAIN @) \cap keep |-> @[t]]]
    ELSE project_data

\* the selector configured for the recorded call: vdata_get('target')
CallConfigured(c) ==
    vdata_get(c.initial_settings,
              DictGet(DictGet(PathData(c.project_data, c.manifest_dir),
                              "variants", EmptyDict),
                      c.cmd_info.command, EmptyDict),
              "target", None)

\* the selector of the only target detected for the active file, else null
Detected(view) ==
    IF view.rust /\ Len(view.targets) = 1 THEN Str(Join(view.targets[1])) ELSE None

\* the selector whose targets entry the recorded call may consult
LayerSelector(c) ==
    IF ~Truthy(DictGet(c.cmd_info, "allows_target", Bool(FALSE))) THEN None
    ELSE IF CallConfigured(c) = Auto THEN Detected(c.view)
    ELSE CallConfigured(c)

\* the thread made a vector
ThreadVector == thread # NoThread /\ thread.loaded /\ thread.result # None

\* C28: the vector depends on the targets of the package only through the
\* entry of the selector in effect: the configured selector, or with 'auto'
\* the selector detected for the active file, none when there is no single
\* candidate or when the command does not allow a target.  Every other
\* entry, the one stored under 'auto' included, may be removed without
\* changing the vector, while a toolchain in the entry of the selector in
\* effect is applied.
C28_TargetLayerOfEffectiveSelector ==
    ThreadVector =>
        LET c == thread
            sel == LayerSelector(c)
            targets == DictGet(PathData(c.project_data, c.manifest_dir),
                               "targets", EmptyDict)
        IN  /\ CallResultOn(c, RestrictTargets(c.project_data, c.manifest_dir,
                                IF Truthy(sel) THEN {sel} ELSE {}))
                 = c.result
            /\ (/\ Truthy(sel)
                /\ sel \in DOMAIN targets
                /\ "toolchain" \in DOMAIN targets[sel]
                /\ Truthy(targets[sel].toolchain)
                /\ "toolchain" \notin DOMAIN c.initial_settings)
                  => c.result.l[2] = <<"+">> \o targets[sel].toolchain.s

\* build with target 'auto' configured and a toolchain stored under the key
\* 'auto': no '+toolchain' in the vector, with the target of the file detected
C28_Witness ==
    /\ ThreadVector
    /\ thread.cmd_info.command = Str(<<"build">>)
    /\ CallConfigured(thread) = Auto
    /\ thread.view = ViewBin1
    /\ get_with_target(thread.project_data, thread.manifest_dir, Auto,
                       "toolchain", Missing) = Nightly
    /\ thread.result.l = << <<"cargo">>, <<"build">>, <<"--bin">>, <<"bin1">>,
                            <<"--message-format=json">> >>


(***************************************************************************)
(* The order of the parts of the vector                                    *)
(***************************************************************************)
\* the symbols of a str, none for any other value
SymbolsOf(v) == IF v.t = "str" THEN v.s ELSE <<>>

\* C27: every vector is 'cargo', then the parts that are present, each once
\* and in this order: '+toolchain', the subcommand, the tokens of the
\* target, '--target' and the triple, '--release', '--message-format=json',
\* the path of the active file, the tokens of the extra cargo arguments,
\* '--' and the tokens of the extra run arguments.  Build with the triple
\* a-b-c stored in the defaults and nothing else gives
\* ['cargo', 'build', '--target', 'a-b-c', '--message-format=json'].
C27_FixedOrder ==
    (lastCmd.called /\ lastCmd.result # None) =>
        LET c == lastCmd
            argv == c.result.l
            part(present, tokens) == IF present THEN tokens ELSE <<>>
        IN  /\ Len(argv) >= 2
            /\ argv = << <<"cargo">> >>
                   \o part(Head(argv[2]) = "+",
                           << <<"+">> \o SymbolsOf(CallResolved(c, "toolchain")) >>)
                   \o << c.cmd_info.command.s >>
                   \o part(Truthy(CallTarget(c)), Split(SymbolsOf(CallTarget(c))))
                   \o part(HasToken(argv, <<"--target">>),
                           << <<"--target">>,
                              SymbolsOf(CallResolved(c, "target_triple")) >>)
                   \o part(HasToken(argv, <<"--release">>), << <<"--release">> >>)
                   \o part(HasToken(argv, <<"--message-format=json">>),
                           << <<"--message-format=json">> >>)
                   \o part(Truthy(DictGet(c.cmd_info, "wants_view_path", Bool(FALSE))),
                           << c.view.file_name >>)
                   \o ArgTokens(CallResolved(c, "extra_cargo_args"), c.view)
                   \o part(HasToken(argv, <<"--">>),
                           << <<"--">> >>
                             \o ArgTokens(CallResolved(c, "extra_run_args"), c.view))
            /\ (/\ c.cmd = "build"
                /\ c.initial_settings = EmptyDict
                /\ PathData(c.project_data, c.manifest_dir)
                     = [defaults |-> [target_triple |-> Str(<<"a-b-c">>)]])
                  => argv = << <<"cargo">>, <<"build">>, <<"--target">>, <<"a-b-c">>,
                               <<"--message-format=json">> >>

\* build with a toolchain, the triple and release stored and the target
\* given one-shot: the parts stand in order, each once
C27_Witness ==
    /\ lastCmd.called
    /\ lastCmd.initial_settings = [target |-> T_bin1]
    /\ lastCmd.result = List(<< <<"cargo">>, <<"+", "nightly">>, <<"build">>,
                                <<"--bin">>, <<"bin1">>, <<"--target">>, <<"a-b-c">>,
                                <<"--release">>, <<"--message-format=json">> >>)


(***************************************************************************)
(* The list of the target question                                         *)
(***************************************************************************)
\* the kinds of `kinds` the chosen variant lets through
AllowedKinds(variant) ==
    IF variant = None THEN {"lib"} \cup ExeKinds
    ELSE LET target_types == CARGO_COMMANDS[variant.s[1]].allows_target
         IN  IF target_types = Bool(TRUE) THEN {"lib"} \cup ExeKinds
             ELSE {target_types.l[i] : i \in 1..Len(target_types.l)}

\* the kind the claim files a target under: lib for the library kinds, its
\* own kind for an executable, "" for the build script
ClaimedKind(target) ==
    IF target.kind[1] \in {"lib", "rlib", "dylib", "staticlib", "proc-macro"} THEN "lib"
    ELSE IF target.kind[1] = "custom-build" THEN ""
    ELSE target.kind[1]

\* the entry expected for a target
ClaimedEntry(target) ==
    IF ClaimedKind(target) = "lib" THEN << Str(<<"Lib">>), Str(<<"--lib">>) >>
    ELSE << Str(<<Capitalize(target.kind[1]), ":", " ">> \o target.name),
            Str(<<"--" \o target.kind[1], " ">> \o target.name) >>

ListingMade == listing # NoListing /\ listing.result.ok

\* C29: the list begins with ('All Targets', null) and ('Automatic
\* Detection', 'auto'); after them stand the entries of the targets whose
\* kind the chosen variant allows, one for each and no other: every lib,
\* bin, test, example and bench target when no variant was chosen or its
\* allows_target is true, the targets of the kinds in allows_target when it
\* is a set; the build script is never listed.
C29_TargetList ==
    ListingMade =>
        LET items == listing.result.items
            targets == listing.targets
            listed == {i \in 1..Len(targets) :
                          ClaimedKind(targets[i]) \in AllowedKinds(listing.variant)}
        IN  /\ Len(items) = 2 + Cardinality(listed)
            /\ items[1] = << Str(<<"All Targets">>), None >>
            /\ items[2] = << Str(<<"Automatic Detection">>), Str(<<"auto">>) >>
            /\ {items[i] : i \in 3..Len(items)}
                 = {ClaimedEntry(targets[i]) : i \in listed}
            /\ \A i \in 1..Len(items) :
                  items[i][2] # Str(<<"--custom-build", " ", "build-script-build">>)

\* cargo run for a package with a library, the binary bin1 and the build
\* script: after the two fixed entries the list holds the binary only
C29_Witness ==
    /\ ListingMade
    /\ listing.variant = Str(<<"run">>)
    /\ \E i \in 1..Len(listing.targets) : listing.targets[i].kind = <<"lib">>
    /\ \E i \in 1..Len(listing.targets) : listing.targets[i].kind = <<"custom-build">>
    /\ listing.result.items
         = << << Str(<<"All Targets">>), None >>,
              << Str(<<"Automatic Detection">>), Str(<<"auto">>) >>,
              << Str(<<"Bin", ":", " ", "bin1">>), Str(<<"--bin", " ", "bin1">>) >> >>

MemberDirs(path) ==
    IF CargoMetadata(path) = None THEN {}
    ELSE {Str(dirname(CargoMetadata(path).packages[i].manifest_path)) :
             i \in 1..Len(CargoMetadata(path).packages)}

\* the paths the package question queries in the run of g: the manifest
\* directory of the run and the package paths of the tree it loaded
QueriedPaths(g) ==
    {g.settings.manifest_dir}
       \cup DOMAIN DictGet(DictGet(DictGet(Snapshot(g), "settings", EmptyDict),
                                   "cargo_build", EmptyDict),
                           "paths", EmptyDict)

\* the position of the package question in the questions visited, 0 when
\* it was not reached
PackageAt(g) ==
    IF \E k \in 1..Len(g.visited) : g.visited[k] = "package"
    THEN CHOOSE k \in 1..Len(g.visited) : g.visited[k] = "package"
    ELSE 0

InSeq(x, seq) == \E i \in 1..Len(seq) : seq[i] = x

IsPrefix(a, b) == Len(a) <= Len(b) /\ a = SubSeq(b, 1, Len(a))

\* the order of the questions of the toolchain command for an answer to which
ToolchainOrder(which) ==
    IF which = Str(<<"variant">>) THEN <<"which", "package", "variant", "toolchain">>
    ELSE <<"which", "package", "target", "toolchain">>

\* C32: the toolchain command asks which first; once the answer is
\* 'variant' the questions visited are which, package, variant, toolchain
\* in this order, once it is 'target' they are which, package, target,
\* toolchain.  When it completes, all four were visited and the tree it
\* stored is the tree it loaded with the one key 'toolchain' set, by
\* set_with_variant at the variant chosen in the first case and by
\* set_with_target at the target chosen in the second.
C32_ToolchainFlow ==
    \A cls \in DOMAIN flows : cls = "CargoSetToolchain" =>
        LET g == flows[cls]
            c == g.choices
        IN  /\ g.visited # <<>> => g.visited[1] = "which"
            /\ ("which" \in DOMAIN c
                  /\ c.which \in {Str(<<"variant">>), Str(<<"target">>)})
                  => IsPrefix(g.visited, ToolchainOrder(c.which))
            /\ g.pc = "done" =>
                  /\ g.visited = ToolchainOrder(c.which)
                  /\ g.writes = 1
                  /\ g.settings.project_data =
                       IF c.which = Str(<<"variant">>)
                       THEN set_with_variant(Snapshot(g), c.package, c.variant,
                                             "toolchain", c.toolchain)
                       ELSE set_with_target(Snapshot(g), c.package, c.target,
                                            "toolchain", c.toolchain)

\* which, the target and the toolchain were picked in the panels, in a
\* project that already had a toolchain stored for the variant build
C32_Witness ==
    /\ "CargoSetToolchain" \in DOMAIN flows
    /\ LET g == flows["CargoSetToolchain"]
       IN  /\ g.pc = "done"
           /\ g.input = EmptyDict
           /\ g.choices.which = Str(<<"target">>)
           /\ g.visited = <<"which", "package", "target", "toolchain">>
           /\ g.store_at_run # None
           /\ get_with_variant(store, g.choices.package, Str(<<"build">>),
                               "toolchain", Missing) = Nightly
           /\ Truthy(g.choices.target)
           /\ get_with_target(store, g.choices.package, g.choices.target,
                              "toolchain", Missing) = g.choices.toolchain


(***************************************************************************)
(* The search for the manifest                                             *)
(***************************************************************************)
\* d is dir or one of the directories above it
IsAtOrAbove(d, dir) ==
    \/ d = RootDir
    \/ d = dir
    \/ (Len(d) < Len(dir) /\ SubSeq(dir, 1, Len(d)) = d /\ dir[Len(d) + 1] = "/")

\* the directories from start up to the root that hold a Cargo.toml
ManifestsAbove(start, manifests) == {d \in manifests : IsAtOrAbove(d, start)}

\* C33: every call of the manifest search returns; it returns true with
\* manifest_dir the nearest of the directories from the start upward that
\* hold a Cargo.toml, and false exactly when none of them holds one.
C33_ManifestSearch ==
    /\ [](search.pc \in {"found", "notfound"} =>
            LET above == ManifestsAbove(search.start, search.manifests)
            IN  /\ search.pc = "notfound" <=> above = {}
                /\ search.pc = "found" =>
                      /\ search.manifest_dir.s \in above
                      /\ \A d \in above : Len(d) <= Len(search.manifest_dir.s))
    /\ (search.pc = "loop") ~> (search.pc \in {"found", "notfound"})

\* started in /a/b/c with a Cargo.toml in /a and in the root: /a is found
C33_Witness ==
    /\ search.pc = "found"
    /\ search.start = <<"/", "a", "/", "b", "/", "c">>
    /\ search.manifests = {RootDir, <<"/", "a">>}
    /\ search.manifest_dir = Str(<<"/", "a">>)


(***************************************************************************)
(* A malformed item source                                                 *)
(***************************************************************************)
\* the questions visited in the run of g whose item source gave a dict
\* with neither 'items' nor 'caption'
MalformedAt(g) ==
    {k \in 1..Len(g.infos) :
        /\ g.infos[k].ok
        /\ "items" \notin DOMAIN g.infos[k].info
        /\ "caption" \notin DOMAIN g.infos[k].info}

\* what the claim says of a run that met a malformed item source
EndsInError(g) ==
    /\ g.pc = "failed"
    /\ g.error = "ValueError"
    /\ \A k \in MalformedAt(g) : ~InSeq(g.visited[k], g.prompted)
    /\ g.done_calls = 0
    /\ g.writes = 0
    /\ store = g.store_at_run

Unanswered(g) ==
    {k \in 1..Len(g.prompted) : g.prompted[k] \notin DOMAIN g.choices}

\* C35: in every state the index of a command lies between 0 and the
\* length of its working sequence and the questions reached are the first
\* sequence_index questions of the sequence, in order; within a run at most
\* one panel waits for an answer, and while a panel is open it is the panel
\* of the question at the index and every earlier question of the sequence
\* has a recorded choice.
C35_OneStepAtATime ==
    \A cls \in DOMAIN flows :
        LET g == flows[cls]
        IN  /\ 0 <= g.sequence_index
            /\ g.sequence_index <= Len(g._sequence)
            /\ g.visited = SubSeq(g._sequence, 1, g.sequence_index)
            /\ Cardinality(Unanswered(g)) <= 1
            /\ (g.prompt # NoPrompt) <=> (g.pc = "asking")
            /\ g.pc = "asking" =>
                  /\ g.sequence_index >= 1
                  /\ g.prompt.q = g._sequence[g.sequence_index]
                  /\ g.prompted[Len(g.prompted)] = g.prompt.q
                  /\ Unanswered(g) = {Len(g.prompted)}
                  /\ \A k \in 1..(g.sequence_index - 1) :
                        g._sequence[k] \in DOMAIN g.choices

\* a panel of a sequence that was extended is open at the third question or
\* later, after an answer given in an earlier panel
C35_Witness ==
    \E cls \in DOMAIN flows :
        LET g == flows[cls]
        IN  /\ g.pc = "asking"
            /\ g.sequence_index >= 3
            /\ Len(g._sequence) > Len(sequence(cls))
            /\ Len(g.prompted) >= 2
            /\ g.input = EmptyDict


(***************************************************************************)
(* A key stored with the value null                                        *)
(***************************************************************************)
\* the highest layer of the recorded call that has key holds None for it
NullOnTop(c, key) ==
    /\ \E i \in 1..Len(CallLayers(c)) : key \in DOMAIN CallLayers(c)[i]
    /\ HighestLayerValue(CallLayers(c), key, Missing) = None

\* a layer of the recorded call below the highest one that has key holds a
\* value for it that is not None
HiddenValue(c, key) ==
    \E i, j \in 1..Len(CallLayers(c)) :
        /\ i < j
        /\ key \in DOMAIN CallLayers(c)[i]
        /\ key \in DOMAIN CallLayers(c)[j]
        /\ CallLayers(c)[j][key] # None

\* C36: when the highest layer of a get_command call that has a key (the
\* one-shot overrides, then targets, variants, defaults) holds null for it,
\* the key resolves to null and the vector is the one of a tree that has the
\* key in no layer: values of lower layers are not used.  A null toolchain
\* gives no '+toolchain' token, a null target_triple no '--target'.
C36_NullIsPresent ==
    (lastCmd.called /\ lastCmd.result # None) =>
        LET c == lastCmd
            argv == c.result.l
        IN  \A key \in ResolvedKeys :
                NullOnTop(c, key) =>
                    /\ CallGet(c, key) = None
                    /\ c.result = CallResultOn(c, StripKey(c.project_data, c.manifest_dir, key))
                    /\ key = "toolchain" => argv[2] = c.cmd_info.command.s
                    /\ key = "target_triple" => ~HasToken(argv, <<"--target">>)

\* toolchain is null in variants[build] and 'nightly' in the defaults, no
\* override and no targets entry has it: build runs without '+nightly'
C36_Witness ==
    /\ lastCmd.called
    /\ lastCmd.cmd = "build"
    /\ "toolchain" \notin DOMAIN CallLayers(lastCmd)[1]
    /\ "toolchain" \notin DOMAIN CallLayers(lastCmd)[2]
    /\ "toolchain" \in DOMAIN CallLayers(lastCmd)[3]
    /\ CallLayers(lastCmd)[3].toolchain = None
    /\ "toolchain" \in DOMAIN CallLayers(lastCmd)[4]
    /\ CallLayers(lastCmd)[4].toolchain = Nightly
    /\ NullOnTop(lastCmd, "toolchain")
    /\ HiddenValue(lastCmd, "toolchain")
    /\ lastCmd.result.l[2] = <<"build">>


(***************************************************************************)
(* Where the target selector comes from                                    *)
(***************************************************************************)
\* the tree with 'target' removed from the defaults and from every targets
\* entry of path; the variants are left as they are
StripTargetOutsideVariants(project_data, path) ==
    LET pdata == PathData(project_data, path)
        strip(layer) == [x \in DOMAIN layer |-> DictDel(layer[x], "target")]
        p1 == IF "defaults" \in DOMAIN pdata
              THEN DictSet(pdata, "defaults", DictDel(pdata.defaults, "target")) ELSE pdata
        p2 == IF "targets" \in DOMAIN p1
              THEN DictSet(p1, "targets", strip(p1.targets)) ELSE p1
    IN  IF pdata = EmptyDict THEN project_data
        ELSE [project_data EXCEPT !.settings.cargo_build.paths[path] = p2]

\* a 'target' is stored in the defaults or in a targets entry of the tree
\* of the recorded call
TargetOutsideVariants(c) ==
    LET pdata == PathData(c.project_data, c.manifest_dir)
    IN  \/ "target" \in DOMAIN DictGet(pdata, "defaults", EmptyDict)
        \/ \E t \in DOMAIN DictGet(pdata, "targets", EmptyDict) :
              "target" \in DOMAIN pdata.targets[t]

\* C37: the vector of a get_command call is the same with every 'target'
\* stored in the defaults or inside a targets entry removed; a command that
\* allows a target has the tokens of the selector configured in the
\* overrides, else in variants[command], right after the subcommand, and no
\* target token when neither has one; a command whose allows_target is
\* false or missing has no target token, and its vector is the same without
\* the 'target' of the overrides and of variants[command].
C37_TargetSource ==
    (lastCmd.called /\ lastCmd.result # None) =>
        LET c == lastCmd
            argv == c.result.l
            allowed == Truthy(DictGet(c.cmd_info, "allows_target", Bool(FALSE)))
            tcfg == ConfiguredTarget(c)
        IN  /\ c.result = CallResultOn(c, StripTargetOutsideVariants(c.project_data,
                                                                    c.manifest_dir))
            /\ (allowed /\ Truthy(tcfg) /\ tcfg # Auto) =>
                  TokensAfterSubcommand(argv, c.cmd_info.command, Split(tcfg.s))
            /\ (allowed /\ ~Truthy(tcfg)) => NoTargetTokens(argv)
            /\ ~allowed =>
                  /\ NoTargetTokens(argv)
                  /\ c.result =
                       get_command(StripKey(c.project_data, c.manifest_dir, "target"),
                                   c.manifest_dir, c.cmd_info,
                                   DictDel(c.initial_settings, "target"), c.view)

\* a build with 'target' stored in the defaults and in the entry of
\* '--bin bin1' and none configured: no target token
C37_Witness ==
    /\ lastCmd.called
    /\ lastCmd.cmd = "build"
    /\ lastCmd.result # None
    /\ ConfiguredTarget(lastCmd) = None
    /\ LET pdata == PathData(lastCmd.project_data, lastCmd.manifest_dir)
       IN  /\ DictGet(DictGet(pdata, "defaults", EmptyDict), "target", None) = T_bin1
           /\ DictGet(DictGet(DictGet(pdata, "targets", EmptyDict), T_bin1, EmptyDict),
                      "target", None) = T_bin1
    /\ TargetOutsideVariants(lastCmd)
    /\ NoTargetTokens(lastCmd.result.l)


(***************************************************************************)
(* The features settings and get_command                                   *)
(***************************************************************************)
FeatureKeys == {"features", "no_default_features"}

\* the tree with the features keys removed from every layer of path
StripFeatures(project_data, path) ==
    StripKey(StripKey(project_data, path, "features"), path, "no_default_features")

\* trees that differ from the tree of the recorded call in the features
\* keys only: removed, or set in every layer
FeatureTwins(c) ==
    {StripFeatures(c.project_data, c.manifest_dir),
     StripKey(c.project_data, c.manifest_dir, "features"),
     StripKey(c.project_data, c.manifest_dir, "no_default_features")}
    \cup {FloodKey(c.project_data, c.manifest_dir, c.cmd_info.command, "features", v) :
             v \in {None, Str(<<"ALL">>), Str(<<"a", " ", "b">>)}}
    \cup {FloodKey(c.project_data, c.manifest_dir, c.cmd_info.command,
                   "no_default_features", v) : v \in {Bool(TRUE), Bool(FALSE)}}

\* the features keys stored in some layer of the package of the recorded call
StoredFeatureKeys(c) ==
    LET pdata == PathData(c.project_data, c.manifest_dir)
        in_layer(layer) == {k \in FeatureKeys : \E x \in DOMAIN layer : k \in DOMAIN layer[x]}
    IN  (FeatureKeys \cap DOMAIN DictGet(pdata, "defaults", EmptyDict))
        \cup in_layer(DictGet(pdata, "targets", EmptyDict))
        \cup in_layer(DictGet(pdata, "variants", EmptyDict))

FreshState(cls, g) ==
    /\ g.sequence_index <= Len(g._sequence)
    /\ g.visited = SubSeq(g._sequence, 1, g.sequence_index)
    /\ IsPrefix(sequence(cls), g._sequence)
    /\ g._sequence = ExpectedSequence(g, 1, sequence(cls))
    /\ DOMAIN g.choices \subseteq SeqSet(g.visited)
    /\ \A q \in DOMAIN g.choices \cap DOMAIN g.input : g.choices[q] = g.input[q]

\* C39 as stated: in every run of a command object, whatever runs the
\* object made before, the working sequence and the choices hold nothing but
\* the static sequence and what this run added.
C39_EveryRunStartsFresh ==
    \A cls \in DOMAIN flows :
        flows[cls].pc # "new" => FreshState(cls, flows[cls])

\* C39: in every run of a command object whose settings were loaded,
\* whatever runs the object made before, the working sequence and the
\* choices hold nothing but the static sequence and what this run added; a
\* run whose load fails resets the index and the working sequence, asks
\* nothing and does not call done.
C39_LoadedRunStartsFresh ==
    \A cls \in DOMAIN flows :
        LET g == flows[cls]
        IN  /\ LoadOk(g) => FreshState(cls, g)
            /\ g.pc = "noload" =>
                  /\ g.sequence_index = 0
                  /\ g._sequence = sequence(cls)
                  /\ g.visited = <<>>
                  /\ g.prompt = NoPrompt
                  /\ g.done_calls = 0
                  /\ g.writes = 0

\* the toolchain command was run for a variant and stored the toolchain;
\* its second run, for a target, has no variant question and no variant
\* answer
C39_Witness ==
    /\ runs = 2
    /\ "CargoSetToolchain" \in DOMAIN flows
    /\ LET g == flows["CargoSetToolchain"]
       IN  /\ g.store_at_run # None
           /\ get_with_variant(g.store_at_run, Str(P1Dir), Str(<<"build">>),
                               "toolchain", Missing) # Missing
           /\ g.pc = "done"
           /\ g._sequence = <<"which", "package", "target", "toolchain">>
           /\ DOMAIN g.choices = {"which", "package", "target", "toolchain"}
           /\ FreshState("CargoSetToolchain", g)


(***************************************************************************)
(* What a setter leaves alone                                              *)
(***************************************************************************)
\* the map settings.cargo_build.paths of the tree pd
PathsOf(pd) ==
    DictGet(DictGet(DictGet(pd, "settings", EmptyDict), "cargo_build", EmptyDict),
            "paths", EmptyDict)

\* the entries <<path, layer, selector or variant, key>> the tree pd holds;
\* the selector of a defaults entry is None
EntriesOf(pd) ==
    UNION {
        {<<p, "defaults", None, k>> :
            k \in DOMAIN DictGet(PathsOf(pd)[p], "defaults", EmptyDict)}
        \cup UNION {
            UNION {{<<p, layer, sel, k>> : k \in DOMAIN PathsOf(pd)[p][layer][sel]} :
                    sel \in DOMAIN PathsOf(pd)[p][layer]} :
            layer \in {"targets", "variants"} \cap DOMAIN PathsOf(pd)[p]} :
        p \in DOMAIN PathsOf(pd)}

\* the value of entry e in the tree pd, Missing when pd does not hold it
EntryOf(pd, e) ==
    LET layer == DictGet(DictGet(PathsOf(pd), e[1], EmptyDict), e[2], EmptyDict)
    IN  DictGet(IF e[2] = "defaults" THEN layer ELSE DictGet(layer, e[3], EmptyDict),
                e[4], Missing)

\* the keys of d other than k, with their values
Without(d, k) == [x \in (DOMAIN d) \ {k} |-> d[x]]

\* new is old with entry e set to v and nothing else changed: every other
\* entry, every top-level key but settings, every key of settings but
\* cargo_build and every key of cargo_build but paths is as in old
OnlyEntryChanged(old, new, e, v) ==
    /\ EntryOf(new, e) = v
    /\ \A x \in (EntriesOf(old) \cup EntriesOf(new)) \ {e} :
          EntryOf(new, x) = EntryOf(old, x)
    /\ Without(new, "settings") = Without(old, "settings")
    /\ Without(new["settings"], "cargo_build")
         = Without(DictGet(old, "settings", EmptyDict), "cargo_build")
    /\ Without(new["settings"]["cargo_build"], "paths")
         = Without(DictGet(DictGet(old, "settings", EmptyDict), "cargo_build", EmptyDict),
                   "paths")

\* C40: the tree a call of set_with_target or set_with_variant writes to
\* the store is the tree the object held before the call with the entry
\* addressed set to the value and every other entry, of this and of every
\* other path, layer, selector, variant and key, and every project key
\* outside settings.cargo_build as it was; set_with_target with a null or
\* an empty selector addresses the entry of the defaults.
C40_SetterFrame ==
    [][/\ \A p \in SetterPaths, t \in SetterTargets, k \in SetterKeys :
            \A v \in ValuesOf(k) :
               IsSetWithTarget(p, t, k, v) =>
                  /\ store' = settings'.project_data
                  /\ OnlyEntryChanged(settings.project_data, store',
                        IF Truthy(t) THEN <<p, "targets", t, k>>
                        ELSE <<p, "defaults", None, k>>, v)
       /\ \A p \in SetterPaths, c \in SetterVariants, k \in SetterKeys :
            \A v \in ValuesOf(k) :
               IsSetWithVariant(p, c, k, v) =>
                  /\ store' = settings'.project_data
                  /\ OnlyEntryChanged(settings.project_data, store',
                                      <<p, "variants", c, k>>, v)]_vars

\* the project held folders, rust_syntax_checking and settings of /p2; the
\* setters wrote a default with an empty selector, a targets entry and a
\* variants entry for /p1 and all the rest is as it was
C40_Witness ==
    /\ nwrites = 3
    /\ store # None
    /\ Without(store, "settings") = Without(OtherProject, "settings")
    /\ Without(store["settings"], "cargo_build") = OtherProject.settings
    /\ DictGet(PathsOf(store), P2, EmptyDict) = OtherPackage
    /\ Str(P1Dir) \in DOMAIN PathsOf(store)
    /\ EntriesOf(store) \ {e \in EntriesOf(store) : e[1] = P2}
         = {<<Str(P1Dir), "defaults", None, "toolchain">>,
            <<Str(P1Dir), "targets", T_bin1, "release">>,
            <<Str(P1Dir), "variants", Str(<<"build">>), "toolchain">>}
    /\ "targets" \in DOMAIN PathsOf(store)[Str(P1Dir)]
    /\ Str(<<>>) \notin DOMAIN PathsOf(store)[Str(P1Dir)]["targets"]

====
